---------------------------- MODULE Spec2Model ----------------------------
(***************************************************************************)
(* Change-driven regeneration pipeline of the ASCII Agent extension.       *)
(*                                                                         *)
(*   SpecWatcher : src/src/watcher.ts   (event classifier, two debounce    *)
(*                 timers, cancelPendingTimers, session dispose)           *)
(*   SpecLm      : src/unnamed/part_003 (lm-client.ts: model selection,    *)
(*                 sendPrompt / executeRequest, cancellation, retry,       *)
(*                 quota cooldown, consent prompt)                         *)
(*   SpecAvail   : the same client with isAvailable() calls                *)
(*   SpecContext : src/src/token-tracker.ts (gatherSourceContext)          *)
(*   SpecStore   : src/src/types.ts (saveSnapshot, pruneSnapshots)         *)
(*   SpecRounds  : src/unnamed/part_001 (safeGenerateArchitecture: save,   *)
(*                 prune, write)                                           *)
(*   SpecSessions: src/src/watcher.ts called twice (two sessions over the  *)
(*                 module-level timer handles)                             *)
(*   SpecConfig  : src/unnamed/part_005 (config.ts: loadConfig, hot        *)
(*                 reload, validateConfig) and its callers, with the      *)
(*                 watcher lifecycle of src/unnamed/part_001               *)
(*   SpecCycles  : src/unnamed/part_001 (overlapping regeneration cycles   *)
(*                 of safeGenerateArchitecture and commandGenerateNow)     *)
(*   SpecWatcherFair, SpecLmFair : the watcher session and the client on   *)
(*                 a running event loop (liveness)                         *)
(*                                                                         *)
(* Time is discrete.  Timers are entries of the event loop's timeout table *)
(* with a remaining delay; a tick never passes an expired timeout.         *)
(***************************************************************************)
EXTENDS Integers, Sequences, FiniteSets, TLC

VARIABLES
    \* ---- watcher.ts ----------------------------------------------------
    config,             \* the AsciiAgentConfig captured by startWatching
    sessionLive,        \* the watcher and its three subscriptions are attached
    treeDebounceTimer,  \* module-level handle ({id} or undefined)
    archDebounceTimer,  \* module-level handle ({id} or undefined)
    timeouts,           \* the event loop's pending setTimeout entries of watcher.ts
    nextTimeoutId,      \* id the next setTimeout returns
    evCount,            \* change events delivered so far
    lastEvent,          \* history: the last delivered event and its classification
    treeSinceEvt,       \* history: time since the last qualifying event (-1: none)
    treeOwed,           \* history: a qualifying event awaits its tree signal
    treeBurst,          \* history: qualifying events that restarted one pending timer
    treeFiresSinceEvt,  \* history: tree handler invocations since that event
    lastTreeFireGap,    \* history: treeSinceEvt at the last tree invocation
    signalCauses,       \* history: paths whose event led to a handler invocation
    erroredIdle,        \* history: concerns whose last handler invocation raised
    rejected,           \* history: a timer callback ended in an unhandled rejection
    cancelledBelow,     \* history: nextTimeoutId at the last cancelPendingTimers()
    \* ---- watcher.ts: several startWatching() sessions -------------------
    sessions,           \* each session: "none", "live" or "disposed"
    handlersOf,         \* pending timeout id -> the session whose handlers it calls
    actor,              \* history: the session whose event or dispose ran last (0: none)
    \* ---- config.ts and its caller activate() ---------------------------
    configFile,         \* what .asciirc.json holds
    currentConfig,      \* extension.ts: the configuration in force
    watcherState,       \* extension.ts: "Active" or "Paused"
    watcherSessionDisposable, \* extension.ts: undefined, or the session to dispose
    pendingStarts,      \* startWatcher() calls whose continuation has not run
    liveSessions,       \* watcher sessions started and not disposed
    deactivated,        \* deactivate() was called
    watcherConfig,      \* the configuration the last startWatching() was given
    prunedWith,         \* the maxSnapshots the last pruneSnapshots() was given
    \* ---- extension.ts: the architecture regeneration cycles -------------
    cycles,             \* each cycle: its trigger, position, token, text
    archFile,           \* what the architecture output file holds
    snapshots,          \* history: every saveSnapshot call that succeeded
    \* ---- lm-client.ts --------------------------------------------------
    cachedModel,        \* the cached chat model, or None
    quotaCooldown,      \* the cooldown flag
    cooldownTimer,      \* handle of the last cooldown timeout ({id} or undefined)
    cooldownTimeouts,   \* the event loop's pending cooldown timeouts
    nextCooldownId,     \* id the next cooldown setTimeout returns
    currentRequestCts,  \* {c}: the token source of call c, or undefined
    modelChangeDisposable, \* the onDidChangeChatModels listener is attached
    modelChanges,       \* models-changed notifications delivered so far
    bgSelections,       \* pending selectModel() calls nobody awaits
    calls,              \* the sendPrompt calls: position, locals, token, result
    quotaSignals,       \* history: calls the service answered with a quota signal
    prompts,            \* history: showInformationMessage calls
    sinceQuota,         \* history: time since the last quota signal (-1: none)
    latestSelection,    \* history: the selectModel() started last, and what it returned
    lastSelection,      \* history: what the last settled selectChatModels did
    lastAvailable,      \* history: the last isAvailable() call and its answer
    \* ---- architecture-agent: gatherSourceContext ------------------------
    prioritized,        \* the candidate files in priority order
    fileTokens,         \* the measured size of each file's section
    unreadable,         \* the files readFile fails on
    tokenBudget,        \* the budget gatherSourceContext is given
    sections,           \* the files whose sections it selected, in order
    gathered,           \* gatherSourceContext has returned
    \* ---- history: saveSnapshot / pruneSnapshots and their caller --------
    historyDir,         \* the entries of .ascii_history
    historyDirExists,   \* .ascii_history exists
    maxHistorySnapshots, \* config.maxHistorySnapshots
    now,                \* the clock: timestamp and mtime of the next snapshot
    archPc,             \* where safeGenerateArchitecture stands after generation
    lastOp,             \* history: the last store operation and what it did
    faulty,             \* history: some file operation has failed so far
    roundCreateFailed   \* history: createDirectory failed in the current round

watcherVars == <<config, sessionLive, treeDebounceTimer, archDebounceTimer,
                 timeouts, nextTimeoutId, evCount, lastEvent, treeSinceEvt,
                 treeOwed, treeBurst, treeFiresSinceEvt, lastTreeFireGap,
                 signalCauses, erroredIdle, rejected, cancelledBelow>>

lmVars == <<cachedModel, quotaCooldown, cooldownTimer, cooldownTimeouts,
            nextCooldownId, currentRequestCts, modelChangeDisposable,
            modelChanges, bgSelections, calls, quotaSignals, prompts,
            sinceQuota, latestSelection>>

availVars == <<lastSelection, lastAvailable>>

contextVars == <<prioritized, fileTokens, unreadable, tokenBudget, sections,
                 gathered>>

storeVars == <<historyDir, historyDirExists, maxHistorySnapshots, now,
               archPc, lastOp, faulty, roundCreateFailed>>

sessionVars == <<sessions, handlersOf, actor>>

loadVars == <<configFile, currentConfig, watcherState, watcherConfig,
              prunedWith, watcherSessionDisposable, pendingStarts,
              liveSessions, deactivated>>

cycleVars == <<cycles, archFile, snapshots>>

\* What a step of one component cannot touch.
outsideWatcher == <<lmVars, availVars, contextVars, storeVars, sessionVars,
                   loadVars, cycleVars>>

outsideLm == <<watcherVars, contextVars, storeVars, sessionVars, loadVars,
              cycleVars>>

outsideContext == <<watcherVars, lmVars, availVars, storeVars, sessionVars,
                   loadVars, cycleVars>>

outsideStore == <<watcherVars, lmVars, availVars, contextVars, sessionVars,
                 loadVars, cycleVars>>

outsideSessions == <<lmVars, availVars, contextVars, storeVars, loadVars,
                    cycleVars>>

outsideLoad == <<watcherVars, lmVars, availVars, contextVars, storeVars,
                sessionVars, cycleVars>>

outsideCycles == <<watcherVars, lmVars, availVars, contextVars, storeVars,
                  sessionVars, loadVars>>

vars == <<watcherVars, lmVars, availVars, contextVars, storeVars,
          sessionVars, loadVars, cycleVars>>

None == "none"

\* An undefined timer handle; a defined one is {id}.
undefined == {}

-----------------------------------------------------------------------------
(* Bounds *)

\* Candidate files of one context assembly.
MaxFiles == 3

\* Architecture regeneration cycles of one behaviour.
MaxCycles == 2

\* Watcher sessions started or being started at one time.
MaxSessions == 2

\* saveSnapshot calls of one behaviour.
MaxSaves == 5

\* Largest config.maxHistorySnapshots.
MaxRetention == 3

\* Files stat fails on during one pruneSnapshots call.
MaxStatFails == 1

MaxEvents == 3

MaxCalls == 2

MaxChunks == 1

MaxModelChanges == 1

-----------------------------------------------------------------------------
(* Durations.  One tick is a fifth of the smallest quiet period the         *)
(* configuration loader lets through (500 ms -> 100 ms).                    *)

MIN_DEBOUNCE_MS == 500

TickMs == MIN_DEBOUNCE_MS \div 5

DebounceChoices == {MIN_DEBOUNCE_MS, MIN_DEBOUNCE_MS + 2 * TickMs}

DebounceTicks == config.debounceMs \div TickMs

-----------------------------------------------------------------------------
(* Paths and glob patterns.  A workspace-relative path is the sequence of  *)
(* its segments; a pattern is a sequence of tokens: a literal segment,     *)
(* "*" or "**".                                                            *)

HistoryDir == ".ascii_history"

Paths ==
    { <<"docs", "file_tree.txt">>, <<"docs", "architecture.txt">>,
      <<HistoryDir>>, <<HistoryDir, "snap.txt">>,
      <<"src", "app.ts">>, <<"src", "ui", "view.ts">>, <<"README.md">> }

OutputChoices ==
    { [fileTree |-> <<"docs", "file_tree.txt">>,
       architecture |-> <<"docs", "architecture.txt">>],
      [fileTree |-> <<"README.md">>,
       architecture |-> <<"src", "app.ts">>] }

IgnoreChoices ==
    { {}, {<<HistoryDir>>, <<"docs">>}, {<<"src", "**">>} }

ArchChoices ==
    { {}, {<<"src", "**", "*">>}, {<<"**">>}, {<<"src", "*">>, <<"docs", "*">>} }

\* One token against one segment: "*" is [^/]*, a literal is itself.
SegMatch(tok, seg) == tok = "*" \/ tok = seg

\* ^tok/tok/...$ against the whole path; "**" is .* between two separators,
\* which on a path without empty segments is one or more whole segments.
RECURSIVE AnchoredMatch(_, _)
AnchoredMatch(path, pattern) ==
    IF pattern = <<>> THEN path = <<>>
    ELSE IF path = <<>> THEN FALSE
    ELSE IF Head(pattern) = "**"
         THEN \E k \in 1..Len(path) :
                 AnchoredMatch(SubSeq(path, k + 1, Len(path)), Tail(pattern))
         ELSE /\ SegMatch(Head(pattern), Head(path))
              /\ AnchoredMatch(Tail(path), Tail(pattern))

\* A pattern without "/" is matched against the file name at any depth.
matchGlob(path, pattern) ==
    IF path = <<>> THEN FALSE
    ELSE IF Len(pattern) = 1
         THEN pattern[1] = "**" \/ SegMatch(pattern[1], path[Len(path)])
         ELSE AnchoredMatch(path, pattern)

matchesAnyPattern(filePath, patterns) ==
    \E pattern \in patterns : matchGlob(filePath, pattern)

Basename(path) == IF path = <<>> THEN <<>> ELSE <<path[Len(path)]>>

outputFilePaths == {config.outputPaths.fileTree, config.outputPaths.architecture}

\* classifyEvent with the self-write guard after the pattern matching.
classifyEvent_PatternsFirst(relPath) ==
    IF \/ matchesAnyPattern(relPath, config.ignore)
       \/ matchesAnyPattern(Basename(relPath), config.ignore)
    THEN "ignore"
    ELSE IF matchesAnyPattern(relPath, config.architectureWatchPatterns)
    THEN "tree-and-arch"
    ELSE IF relPath \in outputFilePaths THEN "ignore"
    ELSE IF relPath[1] = HistoryDir THEN "ignore"
    ELSE "tree-only"

classifyEvent(relPath) ==
    IF relPath \in outputFilePaths THEN "ignore"
    ELSE IF relPath[1] = HistoryDir THEN "ignore"
    ELSE IF \/ matchesAnyPattern(relPath, config.ignore)
            \/ matchesAnyPattern(Basename(relPath), config.ignore)
    THEN "ignore"
    ELSE IF matchesAnyPattern(relPath, config.architectureWatchPatterns)
    THEN "tree-and-arch"
    ELSE "tree-only"

-----------------------------------------------------------------------------
(* The timeout table *)

Timeout(id, kind, left, cause) ==
    [id |-> id, kind |-> kind, left |-> left, cause |-> cause]

clearTimeout(table, handle) == {t \in table : t.id \notin handle}

\* scheduleTreeRegen that keeps a pending timer instead of restarting it.
scheduleTreeRegen_KeepPending(table, cause) ==
    IF treeDebounceTimer # undefined
    THEN [table |-> table, handle |-> treeDebounceTimer]
    ELSE [table |-> table \cup {Timeout(nextTimeoutId, "tree", DebounceTicks, cause)},
          handle |-> {nextTimeoutId}]

\* scheduleTreeRegen that clears a pending timer and arms none in its place.
scheduleTreeRegen_ClearOnly(table, cause) ==
    IF treeDebounceTimer # undefined
    THEN [table |-> clearTimeout(table, treeDebounceTimer), handle |-> undefined]
    ELSE [table |-> table \cup {Timeout(nextTimeoutId, "tree", DebounceTicks, cause)},
          handle |-> {nextTimeoutId}]

\* The table and the handle after scheduleTreeRegen().
scheduleTreeRegen(table, cause) ==
    LET cleared == IF treeDebounceTimer # undefined
                   THEN clearTimeout(table, treeDebounceTimer)
                   ELSE table
    IN  [table |-> cleared \cup {Timeout(nextTimeoutId, "tree", DebounceTicks, cause)},
         handle |-> {nextTimeoutId}]

\* The table and the handle after scheduleArchRegen().
scheduleArchRegen(table, cause) ==
    LET cleared == IF archDebounceTimer # undefined
                   THEN clearTimeout(table, archDebounceTimer)
                   ELSE table
    IN  [table |-> cleared \cup {Timeout(nextTimeoutId + 1, "arch", DebounceTicks, cause)},
         handle |-> {nextTimeoutId + 1}]

-----------------------------------------------------------------------------
(* startWatching: the state right after it returned its session *)

ConfigChoices ==
    [ignore : IgnoreChoices,
     architectureWatchPatterns : ArchChoices,
     outputPaths : OutputChoices,
     debounceMs : DebounceChoices]

InitWatcherOf(configs) ==
    /\ config \in configs
    /\ sessionLive = TRUE
    /\ treeDebounceTimer = undefined
    /\ archDebounceTimer = undefined
    /\ timeouts = {}
    /\ nextTimeoutId = 1
    /\ evCount = 0
    /\ lastEvent = [path |-> <<>>, class |-> None]
    /\ treeSinceEvt = -1
    /\ treeOwed = FALSE
    /\ treeBurst = 0
    /\ treeFiresSinceEvt = 0
    /\ lastTreeFireGap = -1
    /\ signalCauses = {}
    /\ erroredIdle = {}
    /\ rejected = FALSE
    /\ cancelledBelow = 0

InitWatcher == InitWatcherOf(ConfigChoices)

\* A handleEvent that restarts the architecture timer on every event it
\* does not ignore.
restartsArch_Always(classification) == classification # "ignore"

\* handleEvent calls scheduleArchRegen() only for this classification.
restartsArch(classification) == classification = "tree-and-arch"

(* handleEvent: one create / change / delete notification *)
HandleEvent(relPath) ==
    /\ sessionLive
    /\ evCount < MaxEvents
    /\ evCount' = evCount + 1
    /\ LET classification == classifyEvent(relPath)
           tree == scheduleTreeRegen(timeouts, relPath)
           arch == scheduleArchRegen(tree.table, relPath)
       IN  /\ lastEvent' = [path |-> relPath, class |-> classification]
           /\ IF classification = "ignore"
              THEN UNCHANGED <<timeouts, treeDebounceTimer, archDebounceTimer,
                               nextTimeoutId, treeSinceEvt, treeOwed,
                               treeBurst, treeFiresSinceEvt, erroredIdle>>
              ELSE /\ treeDebounceTimer' = tree.handle
                   /\ nextTimeoutId' = nextTimeoutId + 2
                   /\ treeSinceEvt' = 0
                   /\ treeOwed' = TRUE
                   /\ treeBurst' = IF treeDebounceTimer # undefined
                                   THEN treeBurst + 1 ELSE 1
                   /\ treeFiresSinceEvt' = 0
                   /\ IF restartsArch(classification)
                      THEN /\ timeouts' = arch.table
                           /\ archDebounceTimer' = arch.handle
                           /\ erroredIdle' = {}
                      ELSE /\ timeouts' = tree.table
                           /\ erroredIdle' = erroredIdle \ {"tree"}
                           /\ UNCHANGED archDebounceTimer
    /\ UNCHANGED <<config, sessionLive, lastTreeFireGap, signalCauses,
                   rejected, cancelledBelow>>
    /\ UNCHANGED outsideWatcher

\* A timer callback that clears its handle only after the handler returned.
timerCallback_ClearsAfterHandler(handle, handlerThrows) ==
    [handle |-> IF handlerThrows THEN handle ELSE undefined,
     rejected |-> FALSE]

\* The timer callback: the handle is cleared first, then the handler runs
\* inside try / catch, so the callback's promise never rejects.
timerCallback(handle, handlerThrows) ==
    [handle |-> undefined, rejected |-> FALSE]

(* The tree timeout expires: the callback clears the handle and calls       *)
(* handlers.onTreeRegenNeeded(); a rejection is caught and logged.          *)
TreeTimerFires ==
    \E t \in timeouts :
        /\ t.kind = "tree"
        /\ t.left = 0
        /\ timeouts' = timeouts \ {t}
        /\ \E handlerThrows \in BOOLEAN :
              LET done == timerCallback(treeDebounceTimer, handlerThrows)
              IN  /\ treeDebounceTimer' = done.handle
                  /\ rejected' = (rejected \/ done.rejected)
                  /\ erroredIdle' = IF handlerThrows
                                    THEN erroredIdle \cup {"tree"}
                                    ELSE erroredIdle
                  /\ signalCauses' = signalCauses \cup {t.cause}
        /\ treeFiresSinceEvt' = treeFiresSinceEvt + 1
        /\ lastTreeFireGap' = treeSinceEvt
        /\ treeOwed' = FALSE
        /\ UNCHANGED <<config, sessionLive, archDebounceTimer, nextTimeoutId,
                       evCount, lastEvent, treeSinceEvt, treeBurst,
                       cancelledBelow>>
        /\ UNCHANGED outsideWatcher

(* The architecture timeout expires. *)
ArchTimerFires ==
    \E t \in timeouts :
        /\ t.kind = "arch"
        /\ t.left = 0
        /\ timeouts' = timeouts \ {t}
        /\ \E handlerThrows \in BOOLEAN :
              LET done == timerCallback(archDebounceTimer, handlerThrows)
              IN  /\ archDebounceTimer' = done.handle
                  /\ rejected' = (rejected \/ done.rejected)
                  /\ erroredIdle' = IF handlerThrows
                                    THEN erroredIdle \cup {"arch"}
                                    ELSE erroredIdle
                  /\ signalCauses' = signalCauses \cup {t.cause}
        /\ UNCHANGED <<config, sessionLive, treeDebounceTimer, nextTimeoutId,
                       evCount, lastEvent, treeSinceEvt, treeOwed, treeBurst,
                       treeFiresSinceEvt, lastTreeFireGap, cancelledBelow>>
        /\ UNCHANGED outsideWatcher

\* cancelPendingTimers that forgets the architecture timer.
cancelPendingTimers_TreeOnly(table) ==
    [table |-> clearTimeout(table, treeDebounceTimer),
     tree |-> undefined,
     arch |-> archDebounceTimer]

\* The table and the two handles after cancelPendingTimers().
cancelPendingTimers(table) ==
    [table |-> clearTimeout(clearTimeout(table, treeDebounceTimer),
                            archDebounceTimer),
     tree |-> undefined,
     arch |-> undefined]

\* A dispose that detaches the subscriptions and leaves the timers alone.
sessionDispose_KeepsTimers(table) ==
    [table |-> table,
     tree |-> treeDebounceTimer,
     arch |-> archDebounceTimer,
     live |-> FALSE]

\* The table, the handles and the subscriptions after session.dispose().
sessionDispose(table) ==
    [table |-> clearTimeout(clearTimeout(table, treeDebounceTimer),
                            archDebounceTimer),
     tree |-> undefined,
     arch |-> undefined,
     live |-> FALSE]

(* cancelPendingTimers(); commandGenerateNow calls it from a continuation   *)
(* that runs before the event loop can run a timer callback.                *)
CancelPendingTimers ==
    /\ treeDebounceTimer # undefined \/ archDebounceTimer # undefined
    /\ timeouts' = cancelPendingTimers(timeouts).table
    /\ treeDebounceTimer' = cancelPendingTimers(timeouts).tree
    /\ archDebounceTimer' = cancelPendingTimers(timeouts).arch
    /\ treeOwed' = FALSE
    /\ treeBurst' = 0
    /\ cancelledBelow' = nextTimeoutId
    /\ UNCHANGED <<config, sessionLive, nextTimeoutId, evCount, lastEvent,
                   treeSinceEvt, treeFiresSinceEvt, lastTreeFireGap,
                   signalCauses, erroredIdle, rejected>>
    /\ UNCHANGED outsideWatcher

(* session.dispose() *)
DisposeSession ==
    /\ sessionLive
    /\ timeouts' = sessionDispose(timeouts).table
    /\ treeDebounceTimer' = sessionDispose(timeouts).tree
    /\ archDebounceTimer' = sessionDispose(timeouts).arch
    /\ sessionLive' = sessionDispose(timeouts).live
    /\ treeOwed' = FALSE
    /\ treeBurst' = 0
    /\ UNCHANGED <<config, nextTimeoutId, evCount, lastEvent, treeSinceEvt,
                   treeFiresSinceEvt, lastTreeFireGap, signalCauses,
                   erroredIdle, rejected, cancelledBelow>>
    /\ UNCHANGED outsideWatcher

(* One tick of time passes; an expired timeout runs before time moves on. *)
WatcherTick ==
    /\ timeouts # {}
    /\ \A t \in timeouts : t.left > 0
    /\ timeouts' = {[t EXCEPT !.left = t.left - 1] : t \in timeouts}
    /\ treeSinceEvt' = IF treeSinceEvt >= 0 THEN treeSinceEvt + 1 ELSE treeSinceEvt
    /\ UNCHANGED <<config, sessionLive, treeDebounceTimer, archDebounceTimer,
                   nextTimeoutId, evCount, lastEvent, treeOwed, treeBurst,
                   treeFiresSinceEvt, lastTreeFireGap, signalCauses,
                   erroredIdle, rejected, cancelledBelow>>
    /\ UNCHANGED outsideWatcher

NextWatcher ==
    \/ \E relPath \in Paths : HandleEvent(relPath)
    \/ TreeTimerFires
    \/ ArchTimerFires
    \/ CancelPendingTimers
    \/ DisposeSession
    \/ WatcherTick

-----------------------------------------------------------------------------
(* watcher.ts called more than once: every startWatching() returns its own  *)
(* session (subscriptions, handlers), while the two timer handles are       *)
(* module-level variables that all sessions read and write.                 *)

Sessions == {1, 2}

InitNoSessions ==
    /\ sessions = [s \in Sessions |-> "none"]
    /\ handlersOf = <<>>
    /\ actor = 0

\* The handlers the pending timeouts of a table call: those of newIds are
\* the handlers of session s.
handlersAfter(table, newIds, s) ==
    [i \in {t.id : t \in table} |-> IF i \in newIds THEN s ELSE handlersOf[i]]

sessionHistory == <<sessionLive, lastEvent, treeSinceEvt, treeOwed, treeBurst,
                    treeFiresSinceEvt, lastTreeFireGap, erroredIdle,
                    rejected, cancelledBelow>>

(* startWatching() *)
StartWatching(s) ==
    /\ sessions[s] = "none"
    /\ sessions' = [sessions EXCEPT ![s] = "live"]
    /\ actor' = 0
    /\ UNCHANGED <<config, treeDebounceTimer, archDebounceTimer, timeouts,
                   nextTimeoutId, evCount, signalCauses, handlersOf>>
    /\ UNCHANGED sessionHistory
    /\ UNCHANGED outsideSessions

(* handleEvent of session s *)
SessionEvent(s, relPath) ==
    /\ sessions[s] = "live"
    /\ evCount < MaxEvents
    /\ evCount' = evCount + 1
    /\ actor' = s
    /\ LET classification == classifyEvent(relPath)
           tree == scheduleTreeRegen(timeouts, relPath)
           arch == scheduleArchRegen(tree.table, relPath)
       IN  IF classification = "ignore"
           THEN UNCHANGED <<timeouts, treeDebounceTimer, archDebounceTimer,
                            nextTimeoutId, handlersOf>>
           ELSE /\ treeDebounceTimer' = tree.handle
                /\ nextTimeoutId' = nextTimeoutId + 2
                /\ IF classification = "tree-and-arch"
                   THEN /\ timeouts' = arch.table
                        /\ archDebounceTimer' = arch.handle
                   ELSE /\ timeouts' = tree.table
                        /\ UNCHANGED archDebounceTimer
                /\ handlersOf' = handlersAfter(timeouts',
                                     tree.handle \cup arch.handle, s)
    /\ UNCHANGED <<config, signalCauses, sessions>>
    /\ UNCHANGED sessionHistory
    /\ UNCHANGED outsideSessions

(* A timeout expires: its callback clears the module-level handle of its   *)
(* concern and calls the handler of the session that scheduled it.          *)
SessionTimerFires ==
    \E t \in timeouts :
        /\ t.left = 0
        /\ timeouts' = timeouts \ {t}
        /\ \E handlerThrows \in BOOLEAN :
              IF t.kind = "tree"
              THEN /\ treeDebounceTimer' =
                        timerCallback(treeDebounceTimer, handlerThrows).handle
                   /\ UNCHANGED archDebounceTimer
              ELSE /\ archDebounceTimer' =
                        timerCallback(archDebounceTimer, handlerThrows).handle
                   /\ UNCHANGED treeDebounceTimer
        /\ signalCauses' = signalCauses \cup {t.cause}
        /\ handlersOf' = handlersAfter(timeouts', {}, 0)
        /\ actor' = 0
        /\ UNCHANGED <<config, nextTimeoutId, evCount, sessions>>
        /\ UNCHANGED sessionHistory
        /\ UNCHANGED outsideSessions

(* dispose() of session s *)
SessionDispose(s) ==
    /\ sessions[s] = "live"
    /\ sessions' = [sessions EXCEPT ![s] = "disposed"]
    /\ timeouts' = sessionDispose(timeouts).table
    /\ treeDebounceTimer' = sessionDispose(timeouts).tree
    /\ archDebounceTimer' = sessionDispose(timeouts).arch
    /\ handlersOf' = handlersAfter(timeouts', {}, 0)
    /\ actor' = s
    /\ UNCHANGED <<config, nextTimeoutId, evCount, signalCauses>>
    /\ UNCHANGED sessionHistory
    /\ UNCHANGED outsideSessions

SessionsTick ==
    /\ timeouts # {}
    /\ \A t \in timeouts : t.left > 0
    /\ timeouts' = {[t EXCEPT !.left = t.left - 1] : t \in timeouts}
    /\ handlersOf' = handlersOf
    /\ actor' = 0
    /\ UNCHANGED <<config, treeDebounceTimer, archDebounceTimer,
                   nextTimeoutId, evCount, signalCauses, sessions>>
    /\ UNCHANGED sessionHistory
    /\ UNCHANGED outsideSessions

NextSessions ==
    \/ \E s \in Sessions : StartWatching(s)
    \/ \E s \in Sessions, relPath \in Paths : SessionEvent(s, relPath)
    \/ SessionTimerFires
    \/ \E s \in Sessions : SessionDispose(s)
    \/ SessionsTick

-----------------------------------------------------------------------------
(* lm-client.ts.  One tick is a quarter of the cooldown (15 s).  A delay   *)
(* that is not a whole number of ticks crosses either the smaller or the   *)
(* larger number of tick boundaries before it expires.                     *)

QUOTA_COOLDOWN_MS == 60000

RETRY_DELAY_MS == 3000

LmTickMs == QUOTA_COOLDOWN_MS \div 4

CooldownTicks == QUOTA_COOLDOWN_MS \div LmTickMs

RetryTicksMin == RETRY_DELAY_MS \div LmTickMs

RetryTicksMax == (RETRY_DELAY_MS + LmTickMs - 1) \div LmTickMs

Calls == 1..MaxCalls

\* What vscode.lm.selectChatModels can do.
SelectionResults == {"m1", "empty", "throws"}

\* What model.sendRequest or the response stream can raise.  "cancelled" is
\* the service raising a plain (non-LanguageModelError) error because the
\* token it was given is cancelled.
Errors == {"plain", "cancelled", "lm_other", "lm_quota", "lm_consent"}

IsLanguageModelError(err) == err \in {"lm_other", "lm_quota", "lm_consent"}

Returned(complete) == [kind |-> "returned", err |-> None, complete |-> complete]

Threw(err) == [kind |-> "threw", err |-> err, complete |-> FALSE]

Pending == [kind |-> "pending", err |-> None, complete |-> FALSE]

\* A sendPrompt call: pc is its position, model / attempt / chunks are its
\* locals, cancelled is its token's isCancellationRequested, sleepLeft the
\* rest of its retry delay, outcome how it ended; sent counts the
\* model.sendRequest calls it issued.
NewCall ==
    [pc |-> "new", model |-> None, attempt |-> 0, cancelled |-> FALSE,
     chunks |-> 0, sleepLeft |-> 0, outcome |-> Pending, sent |-> 0]

\* The calls whose sendRequest has been issued and has not settled yet.
Requesting == {c \in Calls : calls[c].pc \in {"sending", "streaming"}}

\* The calls between their token source's creation and their finally block.
Active == {c \in Calls : calls[c].pc \in {"sending", "streaming", "sleeping"}}

\* selectModel() without the models.length > 0 test.
selectModel_NoLengthTest(result) == IF result = "throws" THEN None ELSE "m1"

\* selectModel() after selectChatModels settled: the value cached and returned.
selectModel(result) == IF result \in {"empty", "throws"} THEN None ELSE result

\* handleLanguageModelError without the quota branch: a quota signal is
\* handled like any other LanguageModelError.
handleLanguageModelError_NoQuotaBranch(err, att) ==
    IF err = "lm_consent"
    THEN [cooldown |-> FALSE, timer |-> FALSE, prompt |-> TRUE, rethrow |-> TRUE]
    ELSE [cooldown |-> FALSE, timer |-> FALSE, prompt |-> FALSE, rethrow |-> TRUE]

\* handleLanguageModelError whose quota branch sets the flag and arms no
\* timeout to clear it.
handleLanguageModelError_NoTimeout(err, att) ==
    IF err = "lm_quota"
    THEN [cooldown |-> TRUE, timer |-> FALSE, prompt |-> FALSE, rethrow |-> TRUE]
    ELSE IF err = "lm_consent"
    THEN [cooldown |-> FALSE, timer |-> FALSE, prompt |-> TRUE, rethrow |-> TRUE]
    ELSE [cooldown |-> FALSE, timer |-> FALSE, prompt |-> FALSE, rethrow |-> TRUE]

\* handleLanguageModelError(err, attempt): what it does; it always throws err.
handleLanguageModelError(err, att) ==
    IF err = "lm_quota"
    THEN [cooldown |-> TRUE, timer |-> TRUE, prompt |-> FALSE, rethrow |-> TRUE]
    ELSE IF err = "lm_consent"
    THEN [cooldown |-> FALSE, timer |-> FALSE, prompt |-> TRUE, rethrow |-> TRUE]
    ELSE [cooldown |-> FALSE, timer |-> FALSE, prompt |-> FALSE, rethrow |-> TRUE]

\* executeRequest's catch block for an error that is no LanguageModelError:
\* sleep and loop on the first attempt, throw on the second.
catchUnknown(err, att) == IF att = 0 THEN "retry" ELSE "throw"

isAvailable == cachedModel # None /\ ~quotaCooldown

\* A selectModel() is started: by 0 for one nobody awaits, by c for the one
\* sendPrompt call c awaits.  Once it has settled only its result is kept.
Started(by) == [by |-> by, result |-> "pending"]

\* No isAvailable() call was made yet.
NotAsked == [asked |-> FALSE, answer |-> FALSE]

(* createLmClient: the state when it returns; the eager selectModel() is   *)
(* pending and the models-changed listener is attached.                    *)
InitLm ==
    /\ cachedModel = None
    /\ quotaCooldown = FALSE
    /\ cooldownTimer = undefined
    /\ cooldownTimeouts = {}
    /\ nextCooldownId = 1
    /\ currentRequestCts = undefined
    /\ modelChangeDisposable = TRUE
    /\ modelChanges = 0
    /\ bgSelections = 1
    /\ calls = [c \in Calls |-> NewCall]
    /\ quotaSignals = {}
    /\ prompts = 0
    /\ sinceQuota = -1
    /\ latestSelection = Started(0)
    /\ lastSelection = None
    /\ lastAvailable = NotAsked

lmTimeVars == <<cooldownTimer, cooldownTimeouts, nextCooldownId>>

lmSelVars == <<cachedModel, bgSelections, modelChangeDisposable, modelChanges>>

lmHistVars == <<quotaSignals, prompts, sinceQuota, latestSelection>>

(* onDidChangeChatModels fires: selectModel() is started again. *)
ModelsChanged ==
    /\ modelChangeDisposable
    /\ modelChanges < MaxModelChanges
    /\ modelChanges' = modelChanges + 1
    /\ bgSelections' = bgSelections + 1
    /\ latestSelection' = Started(0)
    /\ UNCHANGED <<cachedModel, modelChangeDisposable, quotaCooldown,
                   currentRequestCts, calls>>
    /\ UNCHANGED lmTimeVars
    /\ UNCHANGED <<quotaSignals, prompts, sinceQuota>>
    /\ UNCHANGED availVars
    /\ UNCHANGED outsideLm

(* selectChatModels settles for a selectModel() nobody awaits (the eager   *)
(* one or a re-selection): the cache is written.  The call that settles is *)
(* any of the pending ones, the one started last or an older one.          *)
BackgroundSelectionSettles(result) ==
    /\ bgSelections > 0
    /\ bgSelections' = bgSelections - 1
    /\ cachedModel' = selectModel(result)
    /\ \E newest \in BOOLEAN :
          /\ newest => latestSelection = Started(0)
          /\ ~newest => ~(latestSelection = Started(0) /\ bgSelections = 1)
          /\ latestSelection' = IF newest
                                THEN [by |-> 0, result |-> selectModel(result)]
                                ELSE latestSelection
    /\ UNCHANGED <<modelChangeDisposable, modelChanges, quotaCooldown,
                   currentRequestCts, calls>>
    /\ UNCHANGED lmTimeVars
    /\ UNCHANGED <<quotaSignals, prompts, sinceQuota>>
    /\ lastSelection' = result
    /\ UNCHANGED lastAvailable
    /\ UNCHANGED outsideLm

\* cancel() on the token source in the slot.
cancelCurrent(cs) ==
    [d \in Calls |-> IF d \in currentRequestCts
                     THEN [cs[d] EXCEPT !.cancelled = TRUE]
                     ELSE cs[d]]

\* sendPrompt from "Last-write-wins" to the first model.sendRequest: the
\* token source in the slot is cancelled and replaced, the request is issued.
BeginRequest(c, m) ==
    /\ calls' = [cancelCurrent(calls) EXCEPT
                    ![c].pc = "sending", ![c].model = m, ![c].attempt = 0,
                    ![c].chunks = 0, ![c].sent = calls[c].sent + 1]
    /\ currentRequestCts' = {c}

\* The end of a call with result r: sendPrompt's finally block releases the
\* slot if it still holds this call's token source; the locals are gone.
Finish(c, r) ==
    /\ calls' = [calls EXCEPT
                    ![c].pc = "done", ![c].outcome = r, ![c].model = None,
                    ![c].attempt = 0, ![c].chunks = 0, ![c].sleepLeft = 0]
    /\ currentRequestCts' = IF currentRequestCts = {c} THEN undefined
                            ELSE currentRequestCts

(* sendPrompt is called (calls are numbered in the order they are made). *)
SendPrompt(c) ==
    /\ calls[c].pc = "new"
    /\ \A d \in Calls : d < c => calls[d].pc # "new"
    /\ IF quotaCooldown
       THEN Finish(c, Threw("cooldown"))
       ELSE IF cachedModel # None
       THEN BeginRequest(c, cachedModel)
       ELSE /\ calls' = [calls EXCEPT ![c].pc = "selecting"]
            /\ UNCHANGED currentRequestCts
    /\ latestSelection' = IF ~quotaCooldown /\ cachedModel = None
                          THEN Started(c) ELSE latestSelection
    /\ UNCHANGED quotaCooldown
    /\ UNCHANGED lmSelVars
    /\ UNCHANGED lmTimeVars
    /\ UNCHANGED <<quotaSignals, prompts, sinceQuota>>
    /\ UNCHANGED availVars
    /\ UNCHANGED outsideLm

(* selectChatModels settles for the selectModel() a sendPrompt awaits: the *)
(* cache is written, and sendPrompt resumes with the value in the same run *)
(* of the microtask queue.                                                 *)
LazySelectionSettles(c, result) ==
    /\ calls[c].pc = "selecting"
    /\ cachedModel' = selectModel(result)
    /\ IF selectModel(result) = None
       THEN Finish(c, Threw("no_model"))
       ELSE BeginRequest(c, selectModel(result))
    /\ latestSelection' = IF latestSelection = Started(c)
                          THEN [by |-> 0, result |-> selectModel(result)]
                          ELSE latestSelection
    /\ UNCHANGED <<bgSelections, modelChangeDisposable, modelChanges,
                   quotaCooldown>>
    /\ UNCHANGED lmTimeVars
    /\ UNCHANGED <<quotaSignals, prompts, sinceQuota>>
    /\ lastSelection' = result
    /\ UNCHANGED lastAvailable
    /\ UNCHANGED outsideLm

(* model.sendRequest resolves with a response: streaming starts. *)
ResponseArrives(c) ==
    /\ calls[c].pc = "sending"
    /\ calls' = [calls EXCEPT ![c].pc = "streaming"]
    /\ UNCHANGED <<quotaCooldown, currentRequestCts>>
    /\ UNCHANGED lmSelVars
    /\ UNCHANGED lmTimeVars
    /\ UNCHANGED lmHistVars
    /\ UNCHANGED availVars
    /\ UNCHANGED outsideLm

(* The stream yields a chunk: a cancelled token ends the call with the     *)
(* text so far, otherwise the chunk is appended.                           *)
ChunkArrives(c) ==
    /\ calls[c].pc = "streaming"
    /\ calls[c].chunks < MaxChunks
    /\ IF calls[c].cancelled
       THEN Finish(c, Returned(FALSE))
       ELSE /\ calls' = [calls EXCEPT ![c].chunks = calls[c].chunks + 1]
            /\ UNCHANGED currentRequestCts
    /\ UNCHANGED quotaCooldown
    /\ UNCHANGED lmSelVars
    /\ UNCHANGED lmTimeVars
    /\ UNCHANGED lmHistVars
    /\ UNCHANGED availVars
    /\ UNCHANGED outsideLm

(* The stream ends: fullText is returned.  The service may end the stream  *)
(* of a cancelled request before the text is complete.                     *)
StreamEnds(c, complete) ==
    /\ calls[c].pc = "streaming"
    /\ ~complete => calls[c].cancelled
    /\ Finish(c, Returned(complete))
    /\ UNCHANGED quotaCooldown
    /\ UNCHANGED lmSelVars
    /\ UNCHANGED lmTimeVars
    /\ UNCHANGED lmHistVars
    /\ UNCHANGED availVars
    /\ UNCHANGED outsideLm

(* model.sendRequest rejects, or the stream raises: executeRequest's catch. *)
RequestFails(c, err) ==
    /\ calls[c].pc \in {"sending", "streaming"}
    /\ err = "cancelled" => calls[c].cancelled
    /\ quotaSignals' = IF err = "lm_quota" THEN quotaSignals \cup {c}
                       ELSE quotaSignals
    /\ sinceQuota' = IF err = "lm_quota" THEN 0 ELSE sinceQuota
    /\ UNCHANGED latestSelection
    /\ LET lm == IsLanguageModelError(err)
           h == handleLanguageModelError(err, calls[c].attempt)
       IN  /\ quotaCooldown' = IF lm /\ h.cooldown THEN TRUE ELSE quotaCooldown
           /\ IF lm /\ h.timer
              THEN /\ cooldownTimeouts' = cooldownTimeouts \cup
                         {[id |-> nextCooldownId, left |-> CooldownTicks]}
                   /\ cooldownTimer' = {nextCooldownId}
                   /\ nextCooldownId' = nextCooldownId + 1
              ELSE UNCHANGED lmTimeVars
           /\ prompts' = IF lm /\ h.prompt THEN prompts + 1 ELSE prompts
           /\ IF \/ lm /\ ~h.rethrow
                 \/ ~lm /\ catchUnknown(err, calls[c].attempt) = "retry"
              THEN /\ calls' = [calls EXCEPT ![c].pc = "sleeping",
                                             ![c].chunks = 0,
                                             ![c].sleepLeft = RetryTicksMax]
                   /\ UNCHANGED currentRequestCts
              ELSE Finish(c, Threw(err))
    /\ UNCHANGED lmSelVars
    /\ UNCHANGED availVars
    /\ UNCHANGED outsideLm

(* The retry delay is over: the loop issues the next model.sendRequest. *)
RetryWakes(c) ==
    /\ calls[c].pc = "sleeping"
    /\ calls[c].sleepLeft <= RetryTicksMax - RetryTicksMin
    /\ calls' = [calls EXCEPT ![c].pc = "sending", ![c].sleepLeft = 0,
                              ![c].attempt = calls[c].attempt + 1,
                              ![c].sent = calls[c].sent + 1]
    /\ UNCHANGED <<quotaCooldown, currentRequestCts>>
    /\ UNCHANGED lmSelVars
    /\ UNCHANGED lmTimeVars
    /\ UNCHANGED lmHistVars
    /\ UNCHANGED availVars
    /\ UNCHANGED outsideLm

(* The caller's own token is cancelled: its listener cancels the call's. *)
ExternalCancel(c) ==
    /\ c \in Active
    /\ ~calls[c].cancelled
    /\ calls' = [calls EXCEPT ![c].cancelled = TRUE]
    /\ UNCHANGED <<quotaCooldown, currentRequestCts>>
    /\ UNCHANGED lmSelVars
    /\ UNCHANGED lmTimeVars
    /\ UNCHANGED lmHistVars
    /\ UNCHANGED availVars
    /\ UNCHANGED outsideLm

(* cancelAll() with a token source in the slot. *)
CancelAll ==
    /\ currentRequestCts # undefined
    /\ calls' = cancelCurrent(calls)
    /\ currentRequestCts' = undefined
    /\ UNCHANGED quotaCooldown
    /\ UNCHANGED lmSelVars
    /\ UNCHANGED lmTimeVars
    /\ UNCHANGED lmHistVars
    /\ UNCHANGED availVars
    /\ UNCHANGED outsideLm

(* dispose(): cancelAll, detach the listener, clear the last cooldown timeout. *)
DisposeClient ==
    /\ modelChangeDisposable
    /\ calls' = cancelCurrent(calls)
    /\ currentRequestCts' = undefined
    /\ modelChangeDisposable' = FALSE
    /\ cooldownTimeouts' = {t \in cooldownTimeouts : t.id \notin cooldownTimer}
    /\ UNCHANGED <<cachedModel, bgSelections, modelChanges, quotaCooldown,
                   cooldownTimer, nextCooldownId>>
    /\ UNCHANGED lmHistVars
    /\ UNCHANGED availVars
    /\ UNCHANGED outsideLm

(* A cooldown timeout expires: its callback clears the flag. *)
CooldownExpires ==
    \E t \in cooldownTimeouts :
        /\ t.left = 0
        /\ cooldownTimeouts' = cooldownTimeouts \ {t}
        /\ quotaCooldown' = FALSE
        /\ UNCHANGED <<cooldownTimer, nextCooldownId, currentRequestCts, calls>>
        /\ UNCHANGED lmSelVars
        /\ UNCHANGED lmHistVars
        /\ UNCHANGED availVars
        /\ UNCHANGED outsideLm

(* One tick of time passes; expired timeouts run before time moves on. *)
LmTick ==
    /\ \A t \in cooldownTimeouts : t.left > 0
    /\ \A c \in Calls : calls[c].pc = "sleeping" => calls[c].sleepLeft > 0
    /\ \/ cooldownTimeouts # {}
       \/ \E c \in Calls : calls[c].pc = "sleeping"
       \/ sinceQuota \in 0..(CooldownTicks - 1)
    /\ cooldownTimeouts' = {[t EXCEPT !.left = t.left - 1] : t \in cooldownTimeouts}
    /\ calls' = [c \in Calls |->
                    IF calls[c].pc = "sleeping"
                    THEN [calls[c] EXCEPT !.sleepLeft = calls[c].sleepLeft - 1]
                    ELSE calls[c]]
    /\ sinceQuota' = IF sinceQuota \in 0..(CooldownTicks - 1)
                     THEN sinceQuota + 1 ELSE sinceQuota
    /\ UNCHANGED <<cooldownTimer, nextCooldownId, quotaCooldown,
                   currentRequestCts, quotaSignals, prompts, latestSelection>>
    /\ UNCHANGED lmSelVars
    /\ UNCHANGED availVars
    /\ UNCHANGED outsideLm

NextLm ==
    \/ ModelsChanged
    \/ \E result \in SelectionResults : BackgroundSelectionSettles(result)
    \/ \E c \in Calls : SendPrompt(c)
    \/ \E c \in Calls, result \in SelectionResults : LazySelectionSettles(c, result)
    \/ \E c \in Calls : ResponseArrives(c)
    \/ \E c \in Calls : ChunkArrives(c)
    \/ \E c \in Calls, complete \in BOOLEAN : StreamEnds(c, complete)
    \/ \E c \in Calls, err \in Errors : RequestFails(c, err)
    \/ \E c \in Calls : RetryWakes(c)
    \/ \E c \in Calls : ExternalCancel(c)
    \/ CancelAll
    \/ DisposeClient
    \/ CooldownExpires
    \/ LmTick

-----------------------------------------------------------------------------
(* isAvailable() is called: it answers at once from the cache and the     *)
(* cooldown flag, whatever selection is pending.                           *)
IsAvailableCalled ==
    /\ lastAvailable' = [asked |-> TRUE, answer |-> isAvailable]
    /\ UNCHANGED lastSelection
    /\ UNCHANGED lmVars
    /\ UNCHANGED outsideLm

NextAvail ==
    \/ NextLm
    \/ IsAvailableCalled

-----------------------------------------------------------------------------
(* Context assembly: gatherSourceContext (src/src/token-tracker.ts) *)

Files == 1..MaxFiles

\* Measured sizes of a file section (safeCountTokens or the length / 4
\* estimate; a section is never empty, so its size is positive).
TokenChoices == {400, 1100}

\* Budgets: nothing, a small model, the budget used without model metadata.
FALLBACK_BUDGET == 8000

BudgetChoices == {0, 1000, FALLBACK_BUDGET}

\* The sequences of distinct candidate files (any order, any length).
CandidateLists ==
    {p \in UNION {[1..n -> Files] : n \in 0..MaxFiles} :
        \A i, k \in DOMAIN p : i # k => p[i] # p[k]}

RECURSIVE gatherLoop_TestsBeforeAdding(_, _, _, _, _, _, _)
\* The loop with the test `usedTokens > tokenBudget`.
gatherLoop_TestsBeforeAdding(prio, tokens, unread, budget, i, secs, usedTokens) ==
    IF i > Len(prio) THEN secs
    ELSE IF prio[i] \in unread
    THEN gatherLoop_TestsBeforeAdding(prio, tokens, unread, budget, i + 1,
                                      secs, usedTokens)
    ELSE IF usedTokens > budget THEN secs
    ELSE gatherLoop_TestsBeforeAdding(prio, tokens, unread, budget, i + 1,
                                      Append(secs, prio[i]),
                                      usedTokens + tokens[prio[i]])

RECURSIVE gatherLoop_SkipsWhatDoesNotFit(_, _, _, _, _, _, _)
\* The loop with `continue` where the code has `break`.
gatherLoop_SkipsWhatDoesNotFit(prio, tokens, unread, budget, i, secs, usedTokens) ==
    IF i > Len(prio) THEN secs
    ELSE IF prio[i] \in unread \/ usedTokens + tokens[prio[i]] > budget
    THEN gatherLoop_SkipsWhatDoesNotFit(prio, tokens, unread, budget, i + 1,
                                        secs, usedTokens)
    ELSE gatherLoop_SkipsWhatDoesNotFit(prio, tokens, unread, budget, i + 1,
                                        Append(secs, prio[i]),
                                        usedTokens + tokens[prio[i]])

RECURSIVE gatherLoop_StopsAtReadFailure(_, _, _, _, _, _, _)
\* The loop with `break` where the code's catch has `continue`.
gatherLoop_StopsAtReadFailure(prio, tokens, unread, budget, i, secs, usedTokens) ==
    IF i > Len(prio) THEN secs
    ELSE IF prio[i] \in unread \/ usedTokens + tokens[prio[i]] > budget
    THEN secs
    ELSE gatherLoop_StopsAtReadFailure(prio, tokens, unread, budget, i + 1,
                                       Append(secs, prio[i]),
                                       usedTokens + tokens[prio[i]])

RECURSIVE gatherLoop(_, _, _, _, _, _, _)
\* The loop `for (const relPath of prioritized)` from its i-th round on:
\* readFile fails -> continue; the section does not fit -> break; else the
\* section is pushed and its size added to usedTokens.
gatherLoop(prio, tokens, unread, budget, i, secs, usedTokens) ==
    IF i > Len(prio) THEN secs
    ELSE IF prio[i] \in unread
    THEN gatherLoop(prio, tokens, unread, budget, i + 1, secs, usedTokens)
    ELSE IF usedTokens + tokens[prio[i]] > budget THEN secs
    ELSE gatherLoop(prio, tokens, unread, budget, i + 1,
                    Append(secs, prio[i]), usedTokens + tokens[prio[i]])

\* gatherSourceContext: the files whose sections make up the result.
gatherSourceContext(prio, tokens, unread, budget) ==
    gatherLoop(prio, tokens, unread, budget, 1, <<>>, 0)

InitContextOf(lists, budgets) ==
    /\ prioritized \in lists
    /\ fileTokens \in [Files -> TokenChoices]
    /\ unreadable \in SUBSET Files
    /\ tokenBudget \in budgets
    /\ sections = <<>>
    /\ gathered = FALSE

InitContext == InitContextOf(CandidateLists, BudgetChoices)

\* No context assembly is asked for.
InitNoContext ==
    /\ prioritized = <<>>
    /\ fileTokens = [f \in Files |-> 400]
    /\ unreadable = {}
    /\ tokenBudget = FALLBACK_BUDGET
    /\ sections = <<>>
    /\ gathered = FALSE

(* gatherSourceContext runs on the prioritized candidates. *)
GatherSourceContext ==
    /\ ~gathered
    /\ prioritized # <<>>
    /\ sections' = gatherSourceContext(prioritized, fileTokens, unreadable,
                                       tokenBudget)
    /\ gathered' = TRUE
    /\ UNCHANGED <<prioritized, fileTokens, unreadable, tokenBudget>>
    /\ UNCHANGED outsideContext

NextContext == GatherSourceContext

-----------------------------------------------------------------------------
(* Snapshot store: saveSnapshot / pruneSnapshots (src/src/types.ts) and    *)
(* their caller safeGenerateArchitecture (src/unnamed/part_001)            *)

\* validateConfig resets maxHistorySnapshots below this to it.
MIN_HISTORY_SNAPSHOTS == 1

RetentionChoices == MIN_HISTORY_SNAPSHOTS..MaxRetention

\* A directory entry: a snapshot is a File whose name ends in ".txt" (its
\* name is architecture_<stamp>.txt); anything else is "other".
Entry(stamp, kind, mtime) == [stamp |-> stamp, kind |-> kind, mtime |-> mtime]

\* What .ascii_history may hold before the extension touches it: three
\* snapshots, two of them with the same mtime, and an entry that is no
\* snapshot.
OldEntries ==
    {Entry(1, "snapshot", 1), Entry(2, "snapshot", 2), Entry(3, "snapshot", 2),
     Entry(4, "other", 3)}

FirstStamp == Cardinality(OldEntries) + 1

\* snapshotNames: the File entries whose name ends in ".txt".
snapshotNames(dir) == {e \in dir : e.kind = "snapshot"}

\* The mtime the sort sees: 0 when stat fails.
sortKey(e, statFails) == IF e \in statFails THEN 0 ELSE e.mtime

\* Deletes one file per call once the count reaches the target.
toDeleteCount_OneAtATime(n, maxSnapshots) ==
    IF n <= maxSnapshots - 1 THEN 0 ELSE 1

\* withMtimes.length - targetCount, or 0 at the early return.
toDeleteCount(n, maxSnapshots) ==
    IF n <= maxSnapshots THEN 0 ELSE n - (maxSnapshots - 1)

\* The values toDelete can take: the first toDeleteCount entries of the
\* ascending sort; entries with equal keys are in directory-listing order,
\* which is any order.
toDeleteChoices(dir, maxSnapshots, statFails) ==
    LET names == snapshotNames(dir)
        k == toDeleteCount(Cardinality(names), maxSnapshots)
    IN {D \in SUBSET names :
            /\ Cardinality(D) = k
            /\ \A d \in D, e \in names \ D :
                   sortKey(d, statFails) <= sortKey(e, statFails)}

\* The files stat can fail on: none when pruneSnapshots returns before the
\* stat loop.
statFailChoices(dir, maxSnapshots) ==
    LET names == snapshotNames(dir)
    IN IF toDeleteCount(Cardinality(names), maxSnapshots) = 0 THEN {{}}
       ELSE {S \in SUBSET names : Cardinality(S) <= MaxStatFails}

\* pruneSnapshots whose delete loop ends at a delete that fails.
pruneSnapshots_StopsAtFailure(dir, exists, toDelete, deleteFails) ==
    IF ~exists \/ toDelete \cap deleteFails # {} THEN dir ELSE dir \ toDelete

\* pruneSnapshots: the directory it leaves.  readDirectory throws when the
\* directory is missing; a failed delete is ignored.
pruneSnapshots(dir, exists, toDelete, deleteFails) ==
    IF ~exists THEN dir ELSE dir \ (toDelete \ deleteFails)

\* saveSnapshot: createDirectory (its failure is swallowed), then writeFile
\* of architecture_<stamp>.txt, whose failure is thrown.  writeFile can
\* succeed only in an existing directory.
saveSnapshot(dir, exists, stamp, createOk, writeOk) ==
    LET existsNow == exists \/ createOk
        written == existsNow /\ writeOk
    IN [dir |-> IF written
                THEN {e \in dir : e.stamp # stamp}
                         \cup {Entry(stamp, "snapshot", stamp)}
                ELSE dir,
        exists |-> existsNow,
        threw |-> ~written]

\* lastOp: the kind of the last store operation, whether a file operation
\* it needed failed, how many entries it deleted, the snapshot count it
\* found, when it directly follows a pruneSnapshots without a failed
\* delete, how many entries that one deleted (else -1), and for a
\* pruneSnapshots the files stat failed on and the files whose delete
\* failed.
NoOp ==
    [op |-> "none", failed |-> FALSE, deleted |-> 0, countBefore |-> 0,
     prevDeleted |-> -1, statFailed |-> {}, undeleted |-> {}]

InitStoreOf(dirs, pcs) ==
    /\ historyDir \in dirs
    /\ historyDirExists \in (IF historyDir = {} THEN BOOLEAN ELSE {TRUE})
    /\ maxHistorySnapshots \in RetentionChoices
    /\ now = FirstStamp
    /\ archPc \in pcs
    /\ lastOp = NoOp
    /\ faulty = FALSE
    /\ roundCreateFailed = FALSE

\* The store called directly, on any directory.
InitStore == InitStoreOf(SUBSET OldEntries, {"free"})

\* The pipeline on a workspace without history.
InitRounds ==
    /\ InitStoreOf({{}}, {"idle"})
    /\ historyDirExists = FALSE

\* The store is not used.
InitNoStore ==
    /\ InitStoreOf({{}}, {"off"})
    /\ historyDirExists = FALSE
    /\ maxHistorySnapshots = MIN_HISTORY_SNAPSHOTS

\* The effect of one saveSnapshot call on the store and the history.
DoSave(createOk, writeOk) ==
    LET r == saveSnapshot(historyDir, historyDirExists, now, createOk, writeOk)
    IN /\ historyDir' = r.dir
       /\ historyDirExists' = r.exists
       /\ now' = now + 1
       /\ lastOp' = [op |-> "save", failed |-> r.threw, deleted |-> 0,
                     countBefore |-> Cardinality(snapshotNames(historyDir)),
                     prevDeleted |-> -1, statFailed |-> {}, undeleted |-> {}]
       /\ faulty' = (faulty \/ ~createOk \/ r.threw)
       /\ UNCHANGED maxHistorySnapshots

\* The effect of one pruneSnapshots call on the store and the history.
DoPrune(statFails, toDelete, deleteFails) ==
    LET after == pruneSnapshots(historyDir, historyDirExists, toDelete,
                                deleteFails)
    IN /\ historyDir' = after
       /\ lastOp' = [op |-> "prune",
                     failed |-> (toDelete \cap deleteFails # {}),
                     deleted |-> Cardinality(historyDir \ after),
                     countBefore |-> Cardinality(snapshotNames(historyDir)),
                     prevDeleted |-> IF lastOp.op = "prune" /\ ~lastOp.failed
                                     THEN lastOp.deleted ELSE -1,
                     statFailed |-> statFails,
                     undeleted |-> toDelete \cap deleteFails]
       /\ faulty' = (faulty \/ statFails # {} \/ toDelete \cap deleteFails # {})
       /\ UNCHANGED <<historyDirExists, maxHistorySnapshots, now>>

(* saveSnapshot is called directly. *)
SaveSnapshot(createOk, writeOk) ==
    /\ archPc = "free"
    /\ now < FirstStamp + MaxSaves
    /\ DoSave(createOk, writeOk)
    /\ UNCHANGED <<archPc, roundCreateFailed>>
    /\ UNCHANGED outsideStore

(* pruneSnapshots(maxHistorySnapshots) is called directly. *)
PruneSnapshots ==
    /\ archPc = "free"
    /\ \E statFails \in statFailChoices(historyDir, maxHistorySnapshots) :
         \E toDelete \in toDeleteChoices(historyDir, maxHistorySnapshots,
                                          statFails) :
           \E deleteFails \in SUBSET toDelete :
              DoPrune(statFails, toDelete, deleteFails)
    /\ UNCHANGED <<archPc, roundCreateFailed>>
    /\ UNCHANGED outsideStore

NextStore ==
    \/ \E createOk, writeOk \in BOOLEAN : SaveSnapshot(createOk, writeOk)
    \/ PruneSnapshots

(* safeGenerateArchitecture, a diagram in hand: await saveSnapshot; if it  *)
(* throws, the outer catch returns false.                                  *)
RoundSaves(createOk, writeOk) ==
    /\ archPc = "idle"
    /\ now < FirstStamp + MaxSaves
    /\ DoSave(createOk, writeOk)
    /\ roundCreateFailed' = ~createOk
    /\ archPc' = IF saveSnapshot(historyDir, historyDirExists, now, createOk,
                                 writeOk).threw
                 THEN "idle" ELSE "saved"
    /\ UNCHANGED outsideStore

(* safeGenerateArchitecture: await pruneHistory. *)
RoundPrunes ==
    /\ archPc = "saved"
    /\ \E statFails \in statFailChoices(historyDir, maxHistorySnapshots) :
         \E toDelete \in toDeleteChoices(historyDir, maxHistorySnapshots,
                                          statFails) :
           \E deleteFails \in SUBSET toDelete :
              DoPrune(statFails, toDelete, deleteFails)
    /\ archPc' = "pruned"
    /\ UNCHANGED roundCreateFailed
    /\ UNCHANGED outsideStore

(* safeGenerateArchitecture: await writeOutputFile, then return. *)
RoundWrites ==
    /\ archPc = "pruned"
    /\ archPc' = "idle"
    /\ roundCreateFailed' = FALSE
    /\ UNCHANGED <<historyDir, historyDirExists, maxHistorySnapshots, now,
                   lastOp, faulty>>
    /\ UNCHANGED outsideStore

NextRounds ==
    \/ \E createOk, writeOk \in BOOLEAN : RoundSaves(createOk, writeOk)
    \/ RoundPrunes
    \/ RoundWrites

-----------------------------------------------------------------------------
(* config.ts (src/unnamed/part_005) and the places of extension.ts that    *)
(* hand the configuration to the watcher and to the pruner.  A value of    *)
(* the JSON file is a number, a string that is not a number ("text"), or   *)
(* absent.                                                                  *)

UserValues ==
    {[t |-> "absent", n |-> 0], [t |-> "text", n |-> 0]}
      \cup {[t |-> "number", n |-> k] : k \in {0, 1, 100, 500, 5000}}

\* value < k as JavaScript evaluates it: a string that is not a number
\* converts to NaN, and every comparison with NaN is false.
jsLess(v, k) == v.t = "number" /\ v.n < k

getDefaultConfig ==
    [debounceMs |-> [t |-> "number", n |-> 2000],
     maxHistorySnapshots |-> [t |-> "number", n |-> 50]]

deepMergeConfig(base, overrides) ==
    [debounceMs |-> IF overrides.debounceMs.t # "absent"
                    THEN overrides.debounceMs ELSE base.debounceMs,
     maxHistorySnapshots |-> IF overrides.maxHistorySnapshots.t # "absent"
                             THEN overrides.maxHistorySnapshots
                             ELSE base.maxHistorySnapshots]

validateConfig(cfg) ==
    [debounceMs |-> IF jsLess(cfg.debounceMs, MIN_DEBOUNCE_MS)
                    THEN [t |-> "number", n |-> MIN_DEBOUNCE_MS]
                    ELSE cfg.debounceMs,
     maxHistorySnapshots |->
         IF jsLess(cfg.maxHistorySnapshots, MIN_HISTORY_SNAPSHOTS)
         THEN [t |-> "number", n |-> MIN_HISTORY_SNAPSHOTS]
         ELSE cfg.maxHistorySnapshots]

\* What .asciirc.json can hold: nothing (no file), text that does not parse,
\* or an object with any of the two numeric settings.
ConfigFiles ==
    [kind : {"object"}, debounceMs : UserValues,
     maxHistorySnapshots : UserValues]
      \cup [kind : {"absent", "malformed"},
            debounceMs : {[t |-> "absent", n |-> 0]},
            maxHistorySnapshots : {[t |-> "absent", n |-> 0]}]

loadConfig(file) ==
    IF file.kind # "object"
    THEN getDefaultConfig
    ELSE validateConfig(deepMergeConfig(getDefaultConfig, file))

InitNoLoad ==
    /\ configFile = [kind |-> "absent", debounceMs |-> [t |-> "absent", n |-> 0],
                     maxHistorySnapshots |-> [t |-> "absent", n |-> 0]]
    /\ currentConfig = getDefaultConfig
    /\ watcherState = "Paused"
    /\ watcherConfig = getDefaultConfig
    /\ prunedWith = getDefaultConfig.maxHistorySnapshots
    /\ watcherSessionDisposable = undefined
    /\ pendingStarts = 0
    /\ liveSessions = 0
    /\ deactivated = FALSE

\* stopWatcher(): dispose the session the variable holds, if any, forget it
\* and set the state to Paused.
stopWatcher(disposable, live) ==
    [disposable |-> undefined,
     live |-> IF disposable # undefined THEN live - 1 ELSE live,
     state |-> "Paused"]

\* The synchronous part of startWatcher(): import("./watcher") is requested
\* and the continuation is left for later.
startWatcher(pending) == pending + 1

(* .asciirc.json is created or changed: reload, then activate's callback   *)
(* stores the configuration and, if the watcher is Active, calls           *)
(* stopWatcher() and startWatcher().                                       *)
ConfigFileChanged(file) ==
    /\ ~deactivated
    /\ file.kind # "absent"
    /\ configFile' = file
    /\ currentConfig' = loadConfig(file)
    /\ IF watcherState = "Active"
       THEN LET st == stopWatcher(watcherSessionDisposable, liveSessions)
            IN  /\ st.live + pendingStarts < MaxSessions
                /\ watcherSessionDisposable' = st.disposable
                /\ liveSessions' = st.live
                /\ watcherState' = st.state
                /\ pendingStarts' = startWatcher(pendingStarts)
       ELSE UNCHANGED <<watcherState, watcherSessionDisposable,
                        liveSessions, pendingStarts>>
    /\ UNCHANGED <<watcherConfig, prunedWith, deactivated>>
    /\ UNCHANGED outsideLoad

(* .asciirc.json is deleted: revert to the defaults, and restart as above. *)
ConfigFileDeleted ==
    /\ ~deactivated
    /\ configFile.kind # "absent"
    /\ configFile' = [configFile EXCEPT !.kind = "absent",
                          !.debounceMs = [t |-> "absent", n |-> 0],
                          !.maxHistorySnapshots = [t |-> "absent", n |-> 0]]
    /\ currentConfig' = getDefaultConfig
    /\ IF watcherState = "Active"
       THEN LET st == stopWatcher(watcherSessionDisposable, liveSessions)
            IN  /\ st.live + pendingStarts < MaxSessions
                /\ watcherSessionDisposable' = st.disposable
                /\ liveSessions' = st.live
                /\ watcherState' = st.state
                /\ pendingStarts' = startWatcher(pendingStarts)
       ELSE UNCHANGED <<watcherState, watcherSessionDisposable,
                        liveSessions, pendingStarts>>
    /\ UNCHANGED <<watcherConfig, prunedWith, deactivated>>
    /\ UNCHANGED outsideLoad

(* commandToggleAutoWatch: stopWatcher() if the state is Active, else      *)
(* startWatcher().                                                         *)
ToggleAutoWatch ==
    /\ ~deactivated
    /\ IF watcherState = "Active"
       THEN LET st == stopWatcher(watcherSessionDisposable, liveSessions)
            IN  /\ watcherSessionDisposable' = st.disposable
                /\ liveSessions' = st.live
                /\ watcherState' = st.state
                /\ UNCHANGED pendingStarts
       ELSE /\ liveSessions + pendingStarts < MaxSessions
            /\ pendingStarts' = startWatcher(pendingStarts)
            /\ UNCHANGED <<watcherState, watcherSessionDisposable,
                           liveSessions>>
    /\ UNCHANGED <<configFile, currentConfig, watcherConfig, prunedWith,
                   deactivated>>
    /\ UNCHANGED outsideLoad

(* The continuation of startWatcher() runs: startWatching(currentConfig,   *)
(* ...) opens a session, the variable is overwritten with it and the state *)
(* is set to Active.                                                       *)
StartWatcherCompletes ==
    /\ pendingStarts > 0
    /\ pendingStarts' = pendingStarts - 1
    /\ liveSessions' = liveSessions + 1
    /\ watcherSessionDisposable' = {"session"}
    /\ watcherState' = "Active"
    /\ watcherConfig' = currentConfig
    /\ UNCHANGED <<configFile, currentConfig, prunedWith, deactivated>>
    /\ UNCHANGED outsideLoad

(* deactivate(): stopWatcher().  The commands and the configuration        *)
(* watcher are subscriptions of the extension and end with it; a           *)
(* continuation that is pending still runs.                                *)
Deactivate ==
    /\ ~deactivated
    /\ deactivated' = TRUE
    /\ LET st == stopWatcher(watcherSessionDisposable, liveSessions)
       IN  /\ watcherSessionDisposable' = st.disposable
           /\ liveSessions' = st.live
           /\ watcherState' = st.state
    /\ UNCHANGED <<configFile, currentConfig, watcherConfig, prunedWith,
                   pendingStarts>>
    /\ UNCHANGED outsideLoad

(* pruneHistory: pruneSnapshots(workspaceRoot, currentConfig.maxHistorySnapshots) *)
PruneHistory ==
    /\ ~deactivated
    /\ prunedWith' = currentConfig.maxHistorySnapshots
    /\ UNCHANGED <<configFile, currentConfig, watcherState, watcherConfig,
                   watcherSessionDisposable, pendingStarts, liveSessions,
                   deactivated>>
    /\ UNCHANGED outsideLoad

NextLoad ==
    \/ \E file \in ConfigFiles : ConfigFileChanged(file)
    \/ ConfigFileDeleted
    \/ ToggleAutoWatch
    \/ StartWatcherCompletes
    \/ Deactivate
    \/ PruneHistory

-----------------------------------------------------------------------------
(* extension.ts (src/unnamed/part_001): the architecture regeneration      *)
(* cycles.  safeGenerateArchitecture runs when the architecture timer      *)
(* fires, commandGenerateNow when the user asks; each run creates its own  *)
(* language-model client, and nothing makes a run wait for another.  The   *)
(* text of a cycle is "full" (the stream ran to its end) or "partial"      *)
(* (executeRequest returned what it had when its token was cancelled).     *)

Cycles == 1 .. MaxCycles

InitNoCycles ==
    /\ cycles = [c \in Cycles |->
                   [kind |-> None, pc |-> "idle", text |-> None,
                    cancelled |-> FALSE, skipped |-> FALSE,
                    treeDone |-> FALSE, pruneFailed |-> FALSE,
                    wrote |-> FALSE]]
    /\ archFile = [by |-> 0, text |-> "full"]
    /\ snapshots = {}

\* A cycle that goes on to generate whatever isAvailable() answered.
afterAvailability_Ignored(answer) == "requesting"

\* Where a cycle stands after `if (!(await lmClient.isAvailable())) return`
\* and the preparation of the request.
afterAvailability(answer) ==
    IF answer = "sent" THEN "requesting" ELSE "done"

\* A Generate Now that does not look at its token after the generation.
afterGeneration_NoTokenTest(kind, cancelled) == "generated"

\* Where a cycle stands once generateArchitectureDiagram has returned:
\* commandGenerateNow returns if its progress token is cancelled.
afterGeneration(kind, cancelled) ==
    IF kind = "manual" /\ cancelled THEN "done" ELSE "generated"

(* The architecture timer fires: safeGenerateArchitecture starts. *)
StartDebounced(c) ==
    /\ cycles[c].pc = "idle"
    /\ \A d \in Cycles : d < c => cycles[d].pc # "idle"
    /\ cycles' = [cycles EXCEPT ![c].kind = "debounce", ![c].pc = "check"]
    /\ UNCHANGED <<archFile, snapshots>>
    /\ UNCHANGED outsideCycles

(* commandGenerateNow starts: it regenerates and writes the file tree,     *)
(* and returns before the architecture part if that raised or if the       *)
(* progress token is cancelled by then.                                     *)
StartManual(c, treeOk, goesOn) ==
    /\ cycles[c].pc = "idle"
    /\ \A d \in Cycles : d < c => cycles[d].pc # "idle"
    /\ ~treeOk => ~goesOn
    /\ cycles' = [cycles EXCEPT ![c].kind = "manual",
                                ![c].treeDone = treeOk,
                                ![c].cancelled = treeOk /\ ~goesOn,
                                ![c].pc = IF goesOn THEN "check" ELSE "done"]
    /\ UNCHANGED <<archFile, snapshots>>
    /\ UNCHANGED outsideCycles

(* The user cancels the progress notification of a Generate Now. *)
CancelToken(c) ==
    /\ cycles[c].kind = "manual"
    /\ cycles[c].pc \notin {"idle", "done"}
    /\ ~cycles[c].cancelled
    /\ cycles' = [cycles EXCEPT ![c].cancelled = TRUE]
    /\ UNCHANGED <<archFile, snapshots>>
    /\ UNCHANGED outsideCycles

(* createLmClient(), `await lmClient.isAvailable()`, and, when the answer  *)
(* is yes, generateArchitectureDiagram up to the request it transmits.     *)
AvailabilityCheck(c, answer) ==
    /\ cycles[c].pc = "check"
    /\ cycles' = [cycles EXCEPT ![c].pc = afterAvailability(answer),
                                ![c].skipped = (answer = "unavailable")]
    /\ UNCHANGED <<archFile, snapshots>>
    /\ UNCHANGED outsideCycles

(* sendPrompt settles: with the whole text, with the text received until   *)
(* the token was cancelled, or by raising.                                  *)
GenerationSettles(c, result) ==
    /\ cycles[c].pc = "requesting"
    /\ result = "partial" => cycles[c].cancelled
    /\ cycles' =
          IF result = "threw"
          THEN [cycles EXCEPT ![c].pc = "done"]
          ELSE [cycles EXCEPT ![c].text = result,
                              ![c].pc = afterGeneration(cycles[c].kind,
                                                        cycles[c].cancelled)]
    /\ UNCHANGED <<archFile, snapshots>>
    /\ UNCHANGED outsideCycles

(* await saveSnapshot(workspaceRoot, archContent) *)
CycleSaves(c, ok) ==
    /\ cycles[c].pc = "generated"
    /\ cycles' = [cycles EXCEPT ![c].pc = IF ok THEN "saved" ELSE "done"]
    /\ snapshots' = IF ok
                    THEN snapshots \cup
                           {[content |-> [by |-> c, text |-> cycles[c].text],
                             before |-> archFile]}
                    ELSE snapshots
    /\ UNCHANGED archFile
    /\ UNCHANGED outsideCycles

\* A pruneHistory that lets the failure of pruneSnapshots through to the
\* cycle's outer catch.
afterPrune_Raises(failed) == IF failed THEN "done" ELSE "pruned"

\* Where a cycle stands after pruneHistory: its try / catch logs whatever
\* pruneSnapshots or the import raises.
afterPrune(failed) == "pruned"

(* await pruneHistory(workspaceRoot): its failures are logged, not raised. *)
CyclePrunes(c, failed) ==
    /\ cycles[c].pc = "saved"
    /\ cycles' = [cycles EXCEPT ![c].pc = afterPrune(failed),
                                ![c].pruneFailed = failed]
    /\ UNCHANGED <<archFile, snapshots>>
    /\ UNCHANGED outsideCycles

(* await writeOutputFile(..., outputPaths.architecture, archContent) *)
CycleWrites(c, ok) ==
    /\ cycles[c].pc = "pruned"
    /\ cycles' = [cycles EXCEPT ![c].pc = "done", ![c].wrote = ok]
    /\ archFile' = IF ok THEN [by |-> c, text |-> cycles[c].text] ELSE archFile
    /\ UNCHANGED snapshots
    /\ UNCHANGED outsideCycles

NextCycles ==
    \/ \E c \in Cycles : StartDebounced(c)
    \/ \E c \in Cycles, treeOk, goesOn \in BOOLEAN : StartManual(c, treeOk, goesOn)
    \/ \E c \in Cycles : CancelToken(c)
    \/ \E c \in Cycles, answer \in {"unavailable", "sent", "threw"} :
          AvailabilityCheck(c, answer)
    \/ \E c \in Cycles, result \in {"full", "partial", "threw"} :
          GenerationSettles(c, result)
    \/ \E c \in Cycles, ok \in BOOLEAN : CycleSaves(c, ok)
    \/ \E c \in Cycles, failed \in BOOLEAN : CyclePrunes(c, failed)
    \/ \E c \in Cycles, ok \in BOOLEAN : CycleWrites(c, ok)

-----
(* Specifications *)

\* The configuration of the session that sees no event.
IdleConfig ==
    [ignore |-> {<<HistoryDir>>, <<"docs">>},
     architectureWatchPatterns |-> {<<"src", "**", "*">>},
     outputPaths |-> [fileTree |-> <<"docs", "file_tree.txt">>,
                      architecture |-> <<"docs", "architecture.txt">>],
     debounceMs |-> MIN_DEBOUNCE_MS]

\* The watcher session alone, next to a client nobody uses.
InitSession ==
    /\ InitWatcher /\ InitLm /\ InitNoContext /\ InitNoStore
    /\ InitNoSessions /\ InitNoLoad /\ InitNoCycles

SpecWatcher ==
    /\ InitSession
    /\ [][NextWatcher]_vars

\* The language-model client alone, next to a watcher that sees no event.
InitClient ==
    /\ InitWatcherOf({IdleConfig}) /\ InitLm /\ InitNoContext /\ InitNoStore
    /\ InitNoSessions /\ InitNoLoad /\ InitNoCycles

SpecLm ==
    /\ InitClient
    /\ [][NextLm]_vars

\* One session on a running event loop: time passes and a timeout that is
\* due runs its callback.
SpecWatcherFair ==
    /\ InitClient
    /\ [][NextWatcher]_vars
    /\ WF_vars(WatcherTick)
    /\ WF_vars(TreeTimerFires)
    /\ WF_vars(ArchTimerFires)

\* The client on a running event loop: time passes, a timeout that is due
\* runs its callback, and a retry delay that is over resumes its loop.
SpecLmFair ==
    /\ InitClient
    /\ [][NextLm]_vars
    /\ WF_vars(LmTick)
    /\ WF_vars(CooldownExpires)
    /\ \A c \in Calls : WF_vars(RetryWakes(c))

\* One context assembly, next to an idle watcher and an unused client.
InitAssembly ==
    /\ InitWatcherOf({IdleConfig}) /\ InitLm /\ InitContext /\ InitNoStore
    /\ InitNoSessions /\ InitNoLoad /\ InitNoCycles

SpecContext ==
    /\ InitAssembly
    /\ [][NextContext]_vars

\* saveSnapshot and pruneSnapshots called in any order on any directory.
InitHistory ==
    /\ InitWatcherOf({IdleConfig}) /\ InitLm /\ InitNoContext /\ InitStore
    /\ InitNoSessions /\ InitNoLoad /\ InitNoCycles

SpecStore ==
    /\ InitHistory
    /\ [][NextStore]_vars

\* Rounds of save, prune, write on a workspace without history.
InitPipeline ==
    /\ InitWatcherOf({IdleConfig}) /\ InitLm /\ InitNoContext /\ InitRounds
    /\ InitNoSessions /\ InitNoLoad /\ InitNoCycles

SpecRounds ==
    /\ InitPipeline
    /\ [][NextRounds]_vars

\* Watcher sessions over the module-level timer handles: session 1 is
\* live, and startWatching() may be called once more.
InitTwoSessions ==
    /\ InitWatcher /\ InitLm /\ InitNoContext /\ InitNoStore
    /\ sessions = [s \in Sessions |-> IF s = 1 THEN "live" ELSE "none"]
    /\ handlersOf = <<>>
    /\ actor = 0
    /\ InitNoLoad /\ InitNoCycles

SpecSessions ==
    /\ InitTwoSessions
    /\ [][NextSessions]_vars

\* activate() has loaded whatever .asciirc.json held; the watcher is not
\* started yet and nothing was pruned.
InitConfigLoad ==
    /\ InitWatcherOf({IdleConfig}) /\ InitLm /\ InitNoContext /\ InitNoStore
    /\ InitNoSessions /\ InitNoCycles
    /\ configFile \in ConfigFiles
    /\ currentConfig = loadConfig(configFile)
    /\ watcherState = "Paused"
    /\ watcherConfig = getDefaultConfig
    /\ prunedWith = getDefaultConfig.maxHistorySnapshots
    /\ watcherSessionDisposable = undefined
    /\ pendingStarts = 0
    /\ liveSessions = 0
    /\ deactivated = FALSE

SpecConfig ==
    /\ InitConfigLoad
    /\ [][NextLoad]_vars

\* Regeneration cycles on a workspace whose architecture file exists.
InitCycles ==
    /\ InitWatcherOf({IdleConfig}) /\ InitLm /\ InitNoContext /\ InitNoStore
    /\ InitNoSessions /\ InitNoLoad /\ InitNoCycles

SpecCycles ==
    /\ InitCycles
    /\ [][NextCycles]_vars

\* The client and a caller that asks isAvailable() at any moment.
SpecAvail ==
    /\ InitClient
    /\ [][NextAvail]_vars

-----------------------------------------------------------------------------
(* Debounce scheduler: properties *)

\* C1: a burst of qualifying events, each closer than debounceMs to the one
\* before, leads to exactly one invocation of the tree handler, and that
\* invocation happens debounceMs after the last event of the burst: never
\* more than one invocation follows an event, every invocation comes a full
\* quiet period after the last qualifying event, and as long as the signal
\* is owed exactly one tree timeout is pending, due a quiet period after
\* that event.
C1_DebounceOncePerBurst ==
    /\ treeFiresSinceEvt <= 1
    /\ lastTreeFireGap \in {-1, DebounceTicks}
    /\ Cardinality({t \in timeouts : t.kind = "tree"}) <= 1
    /\ treeOwed =>
          \E t \in timeouts :
              /\ t.kind = "tree"
              /\ treeDebounceTimer = {t.id}
              /\ t.left = DebounceTicks - treeSinceEvt

\* A burst of three events was answered by its one invocation.
C1_Witness ==
    /\ treeBurst >= 3
    /\ treeFiresSinceEvt = 1
    /\ lastTreeFireGap = DebounceTicks
    /\ ~treeOwed

SelfWrite(relPath) ==
    \/ relPath = config.outputPaths.fileTree
    \/ relPath = config.outputPaths.architecture
    \/ relPath[1] = HistoryDir

\* C2: whatever the ignore and architecture patterns are, an event on an
\* output path or on / under the retention directory is classified
\* "ignore", no pending timeout was started by it, and no handler
\* invocation goes back to it.
C2_NoSelfWriteSignal ==
    /\ (lastEvent.path # <<>> /\ SelfWrite(lastEvent.path))
          => lastEvent.class = "ignore"
    /\ \A t \in timeouts : ~SelfWrite(t.cause)
    /\ \A relPath \in signalCauses : ~SelfWrite(relPath)

\* A self-write event that no ignore pattern covers and that an architecture
\* pattern matches arrived while a timer was pending.
C2_Witness ==
    /\ lastEvent.path # <<>>
    /\ SelfWrite(lastEvent.path)
    /\ ~matchesAnyPattern(lastEvent.path, config.ignore)
    /\ ~matchesAnyPattern(Basename(lastEvent.path), config.ignore)
    /\ matchesAnyPattern(lastEvent.path, config.architectureWatchPatterns)
    /\ lastEvent.class = "ignore"
    /\ treeDebounceTimer # undefined

-----------------------------------------------------------------------------
(* Request arbiter: properties *)

\* Call c issues a model.sendRequest in this step.
Issues(c) == calls'[c].sent > calls[c].sent

\* C3: at most one request is in flight: whenever a model.sendRequest is
\* issued (a first attempt or the attempt after the retry delay), every
\* other request that was issued and has not settled has been cancelled
\* before.
C3_SingleFlight ==
    [][\A c \in Calls :
          Issues(c) =>
             \A d \in Calls \ {c} :
                 calls'[d].pc \in {"sending", "streaming"} => calls'[d].cancelled]_vars

\* C4: of two overlapping sendPrompt calls it is the earlier one that is
\* cancelled: a call that takes the slot never cancels the token of a call
\* made after it.
C4_EarlierCallIsCancelled ==
    [][\A c, d \in Calls :
          (/\ Issues(c)
           /\ calls[c].pc \in {"new", "selecting"}
           /\ ~calls[d].cancelled
           /\ calls'[d].cancelled) => d < c]_vars

\* C5: a sendPrompt call whose token was cancelled ends by returning, never
\* by throwing.
C5_CancelledCallReturns ==
    \A c \in Calls :
        (calls[c].pc = "done" /\ calls[c].cancelled)
            => calls[c].outcome.kind = "returned"

\* C6: a call that ends by propagating a failure that is neither a quota nor
\* a consent signal (a plain error or a generic LanguageModelError) has made
\* exactly two attempts, and no call makes a third.
C6_TransientFailureRetriedOnce ==
    \A c \in Calls :
        /\ calls[c].sent <= 2
        /\ (/\ calls[c].pc = "done"
            /\ calls[c].outcome.kind = "threw"
            /\ calls[c].outcome.err \in {"plain", "lm_other"})
              => calls[c].sent = 2

\* C7: in the step in which the service answers a call with a quota signal
\* (on either attempt) the cooldown flag is set and the call ends by
\* throwing that error; a call so answered issues no further request.
C7_QuotaEntersCooldown ==
    [][\A c \in Calls :
          /\ (c \in quotaSignals' /\ c \notin quotaSignals) =>
                /\ quotaCooldown'
                /\ calls'[c].pc = "done"
                /\ calls'[c].outcome = Threw("lm_quota")
          /\ c \in quotaSignals =>
                /\ calls'[c].sent = calls[c].sent
                /\ calls'[c].pc = "done"]_vars

\* The quota signal answered the second attempt of a call.
C7_Witness ==
    \E c \in Calls :
        /\ c \in quotaSignals
        /\ calls[c].sent = 2
        /\ calls[c].outcome = Threw("lm_quota")
        /\ quotaCooldown

\* C8: no model.sendRequest is issued while the cooldown flag is set.
C8_NoRequestDuringCooldown ==
    [][\A c \in Calls : Issues(c) => ~quotaCooldown]_vars

\* C9: from a quota signal on, isAvailable() is false until the full
\* cooldown duration has passed since that signal.
C9_UnavailableForFullCooldown ==
    sinceQuota \in 0..(CooldownTicks - 1) => ~isAvailable

\* C10: the authorization prompt is shown at most once, however many calls
\* fail with a consent signal, and none of those calls is retried.
C10_ConsentPromptOnce ==
    /\ prompts <= 1
    /\ \A c \in Calls :
          calls[c].outcome = Threw("lm_consent") => calls[c].sent = 1

-----------------------------------------------------------------------------
(* isAvailable: properties *)

\* A selectModel() is pending: the eager one, a re-selection, or the one a
\* sendPrompt awaits.
SelectionPending ==
    \/ bgSelections > 0
    \/ \E c \in Calls : calls[c].pc = "selecting"

\* C11: isAvailable() never answers while a model selection (eager,
\* re-selection after models-changed, or lazy inside sendPrompt) is pending.
C11_AnswersAfterSelection ==
    [][lastAvailable' # lastAvailable => ~SelectionPending]_vars

\* A client nothing happened to but its eager selection.
Fresh ==
    /\ modelChangeDisposable
    /\ modelChanges = 0
    /\ \A c \in Calls : calls[c].pc = "new"

\* C12: on a freshly created client whose model selection gave an empty list
\* or raised (or has not settled yet), isAvailable() answers false.
C12_NoModelMeansUnavailable ==
    [][(lastAvailable' # lastAvailable /\ Fresh /\ lastSelection # "m1")
          => lastAvailable'.answer = FALSE]_vars

C12_Witness ==
    /\ Fresh
    /\ bgSelections = 0
    /\ lastSelection \in {"empty", "throws"}
    /\ lastAvailable # NotAsked
    /\ lastAvailable.answer = FALSE

-----------------------------------------------------------------------------
(* Context assembly: properties *)

RECURSIVE SumTokens(_)
SumTokens(secs) ==
    IF secs = <<>> THEN 0 ELSE fileTokens[Head(secs)] + SumTokens(Tail(secs))

IsReadable(f) == f \notin unreadable

ReadableCandidates == SelectSeq(prioritized, IsReadable)

\* C13: the selected sections' measured sizes sum to at most the budget;
\* budget 0 selects nothing; a single candidate larger than the budget
\* selects nothing.
C13_WithinBudget ==
    gathered =>
        /\ SumTokens(sections) <= tokenBudget
        /\ tokenBudget = 0 => sections = <<>>
        /\ (Len(prioritized) = 1 /\ fileTokens[prioritized[1]] > tokenBudget)
              => sections = <<>>

C13_Witness ==
    /\ gathered
    /\ Len(prioritized) = MaxFiles
    /\ unreadable = {}
    /\ Len(sections) = 2
    /\ SumTokens(sections) + fileTokens[prioritized[3]] > tokenBudget

\* C14: the selection is a prefix of the readable candidates in priority
\* order, ending at the first candidate that would exceed the budget, even
\* if a later one would still fit.
C14_PrefixFirstFitStop ==
    gathered =>
        /\ Len(sections) <= Len(ReadableCandidates)
        /\ sections = SubSeq(ReadableCandidates, 1, Len(sections))
        /\ Len(sections) < Len(ReadableCandidates)
              => SumTokens(sections)
                   + fileTokens[ReadableCandidates[Len(sections) + 1]]
                 > tokenBudget

C14_Witness ==
    /\ gathered
    /\ unreadable = {}
    /\ Len(prioritized) = 3
    /\ Len(sections) = 1
    /\ fileTokens[prioritized[3]] + SumTokens(sections) <= tokenBudget

\* C15: an unreadable candidate is skipped and costs nothing: the selection
\* is the one made from the candidate list without the unreadable files.
C15_UnreadableSkipped ==
    gathered =>
        sections = gatherSourceContext(ReadableCandidates, fileTokens, {},
                                       tokenBudget)

C15_Witness ==
    /\ gathered
    /\ Len(prioritized) >= 2
    /\ prioritized[1] \in unreadable
    /\ sections # <<>>
    /\ Len(sections) < Len(ReadableCandidates)

-----------------------------------------------------------------------------
(* Snapshot store: properties *)

SnapshotCount == Cardinality(snapshotNames(historyDir))

\* C16: after a pruneSnapshots(maxSnapshots) whose deletes all succeeded, at
\* most maxSnapshots - 1 snapshot files are retained.
C16_PruneLeavesRoom ==
    (lastOp.op = "prune" /\ ~lastOp.failed)
        => SnapshotCount <= maxHistorySnapshots - 1

\* C17: in rounds of saveSnapshot then pruneSnapshots(max) from an empty
\* directory, with no failed file operation, the retained count never
\* exceeds max between operations.
C17_NeverMoreThanMax == ~faulty => SnapshotCount <= maxHistorySnapshots

\* C18: after the prune of round K > M, with no failed file operation, the
\* directory holds exactly the M - 1 most recently saved snapshots.
C18_NewestKept ==
    (archPc = "pruned" /\ ~faulty /\ now - FirstStamp > maxHistorySnapshots)
        => {e.stamp : e \in snapshotNames(historyDir)}
             = {t \in FirstStamp..(now - 1) : t >= now - (maxHistorySnapshots - 1)}

C20_CreateFailurePropagates ==
    roundCreateFailed
        => /\ archPc = "idle"
           /\ lastOp.op = "save"
           /\ lastOp.failed


-----------------------------------------------------------------------------
(* Debounce scheduler: failures, cancellation, disposal *)

TimersOf(table, kind) == {t \in table : t.kind = kind}

\* A delivered event that qualifies for a regeneration.
QualifyingEvent ==
    /\ evCount' = evCount + 1
    /\ lastEvent'.class # "ignore"

\* C23: when a tree or architecture handler raises at its timer's fire, the
\* callback does not reject, the handle of that concern is undefined
\* afterwards, the other concern's handle and pending timeout are left as
\* they were, and the next qualifying event schedules a fire a full
\* debounce interval later.
C23_HandlerErrorLeavesIdle ==
    [][ /\ ~rejected'
        /\ "tree" \in erroredIdle' => treeDebounceTimer' = undefined
        /\ "arch" \in erroredIdle' => archDebounceTimer' = undefined
        /\ ("tree" \notin erroredIdle /\ "tree" \in erroredIdle')
              => /\ archDebounceTimer' = archDebounceTimer
                 /\ TimersOf(timeouts', "arch") = TimersOf(timeouts, "arch")
        /\ ("arch" \notin erroredIdle /\ "arch" \in erroredIdle')
              => /\ treeDebounceTimer' = treeDebounceTimer
                 /\ TimersOf(timeouts', "tree") = TimersOf(timeouts, "tree")
        /\ ("tree" \in erroredIdle /\ QualifyingEvent)
              => \E t \in TimersOf(timeouts', "tree") :
                    /\ treeDebounceTimer' = {t.id}
                    /\ t.left = DebounceTicks
        /\ ("arch" \in erroredIdle /\ QualifyingEvent
                /\ lastEvent'.class = "tree-and-arch")
              => \E t \in TimersOf(timeouts', "arch") :
                    /\ archDebounceTimer' = {t.id}
                    /\ t.left = DebounceTicks
      ]_vars

\* The tree handler raised while the architecture timer was still pending.
C23_Witness ==
    /\ "tree" \in erroredIdle
    /\ archDebounceTimer # undefined

\* C24: cancelPendingTimers() leaves both handles undefined, and no timeout
\* created before it stays pending, so no handler runs for an event that
\* came before the cancel.
C24_CancelDropsPending ==
    [][ /\ cancelledBelow' # cancelledBelow
              => /\ treeDebounceTimer' = undefined
                 /\ archDebounceTimer' = undefined
        /\ \A t \in timeouts' : t.id >= cancelledBelow'
      ]_vars

\* A cancel happened with both timers pending, and a later event scheduled
\* a new fire.
C24_Witness ==
    /\ cancelledBelow >= 3
    /\ treeDebounceTimer # undefined
    /\ \E t \in timeouts : t.left = 0

\* C25: once the session is disposed both handles are undefined, no timeout
\* is pending, and no handler is invoked any more.
C25_DisposedSessionIsSilent ==
    [][ ~sessionLive'
          => /\ treeDebounceTimer' = undefined
             /\ archDebounceTimer' = undefined
             /\ timeouts' = {}
             /\ ~sessionLive => /\ signalCauses' = signalCauses
                                /\ treeFiresSinceEvt' = treeFiresSinceEvt
                                /\ evCount' = evCount
      ]_vars

\* The session was disposed while an event's timers were pending.
C25_Witness ==
    /\ ~sessionLive
    /\ treeOwed = FALSE
    /\ evCount > 0
    /\ lastEvent.class = "tree-and-arch"
    /\ lastEvent.path \notin signalCauses


\* The pending timeouts that call the handlers of session s.
OwnedBy(table, owner, s) == {t \in table : owner[t.id] = s}

\* C26: a dispose of, or an event on, one watcher session leaves the
\* pending timeouts of every other session as they were.
C26_SessionsIndependent ==
    [][ \A s \in Sessions :
          (/\ actor' \in Sessions \ {s}
           /\ evCount' # evCount \/ sessions' # sessions)
          => OwnedBy(timeouts', handlersOf', s) = OwnedBy(timeouts, handlersOf, s)
      ]_vars


-----------------------------------------------------------------------------
(* Configuration: properties *)

\* value >= k, as a number.
AtLeast(v, k) == v.t = "number" /\ v.n >= k

\* C28: every configuration in force, handed to the watcher or to the
\* pruner, has debounceMs >= 500 and maxHistorySnapshots >= 1, whatever
\* .asciirc.json holds.
C28_FloorsHold ==
    /\ AtLeast(currentConfig.debounceMs, MIN_DEBOUNCE_MS)
    /\ AtLeast(currentConfig.maxHistorySnapshots, MIN_HISTORY_SNAPSHOTS)
    /\ AtLeast(watcherConfig.debounceMs, MIN_DEBOUNCE_MS)
    /\ AtLeast(watcherConfig.maxHistorySnapshots, MIN_HISTORY_SNAPSHOTS)
    /\ AtLeast(prunedWith, MIN_HISTORY_SNAPSHOTS)


-----------------------------------------------------------------------------
(* Regeneration cycles: properties *)

\* C21: what saveSnapshot stores is what the architecture file held before
\* the cycle overwrote it.
C21_SnapshotIsPreviousVersion ==
    \A s \in snapshots : s.content = s.before

\* C22: the text of a request that was cancelled before its stream ended
\* is neither saved as a snapshot nor written to the architecture file.
C22_NoPartialTextKept ==
    /\ archFile.text = "full"
    /\ \A s \in snapshots : s.content.text = "full"
    /\ \A c \in Cycles :
          cycles[c].pc \in {"generated", "saved", "pruned"}
            => cycles[c].text = "full"

\* A Generate Now was cancelled during its request and came back with a
\* partial text, while another cycle wrote its diagram.
C22_Witness ==
    /\ \E c \in Cycles : cycles[c].text = "partial" /\ cycles[c].pc = "done"
    /\ \E c \in Cycles : cycles[c].wrote

\* C27: a cycle whose availability check said no writes no architecture
\* file and saves no snapshot; a Generate Now has written the file tree
\* by then.
C27_UnavailableSkipsArchitecture ==
    \A c \in Cycles :
        cycles[c].skipped
          => /\ cycles[c].pc = "done"
             /\ ~cycles[c].wrote
             /\ archFile.by # c
             /\ \A s \in snapshots : s.content.by # c
             /\ cycles[c].kind = "manual" => cycles[c].treeDone

\* A Generate Now found the client unavailable; a debounced cycle did too.
C27_Witness ==
    /\ \E c \in Cycles : cycles[c].skipped /\ cycles[c].kind = "manual"
    /\ \E c \in Cycles : cycles[c].skipped /\ cycles[c].kind = "debounce"

\* C29: at most one cycle is between its saveSnapshot and the end of its
\* architecture write.
C29_OneSaveSequence ==
    Cardinality({c \in Cycles : cycles[c].pc \in {"saved", "pruned"}}) <= 1

\* C30: at most one cycle has a request in flight.
C30_OneRequestAcrossTriggers ==
    Cardinality({c \in Cycles : cycles[c].pc = "requesting"}) <= 1


-----------------------------------------------------------------------------
(* Debounce scheduler: the two timers are independent *)

\* C31: an event classified tree-only restarts the tree timer and leaves
\* the architecture handle and its pending timeout as they were; an event
\* classified tree-and-arch restarts both; and whatever the step, a pending
\* architecture timeout either is a new one with the full debounce
\* interval, created by an architecture-relevant event, or an old one whose
\* remaining delay no event has changed.
C31_TreeOnlyKeepsArchTimer ==
    [][ /\ (QualifyingEvent /\ lastEvent'.class = "tree-only")
              => /\ archDebounceTimer' = archDebounceTimer
                 /\ TimersOf(timeouts', "arch") = TimersOf(timeouts, "arch")
                 /\ \E t \in TimersOf(timeouts', "tree") :
                       /\ TimersOf(timeouts', "tree") = {t}
                       /\ treeDebounceTimer' = {t.id}
                       /\ t.id \notin treeDebounceTimer
                       /\ t.left = DebounceTicks
        /\ (QualifyingEvent /\ lastEvent'.class = "tree-and-arch")
              => \E t \in TimersOf(timeouts', "tree"),
                    a \in TimersOf(timeouts', "arch") :
                       /\ timeouts' = {t, a}
                       /\ treeDebounceTimer' = {t.id}
                       /\ archDebounceTimer' = {a.id}
                       /\ t.left = DebounceTicks
                       /\ a.left = DebounceTicks
                       /\ a.cause = lastEvent'.path
        /\ \A a \in TimersOf(timeouts', "arch") :
              \/ a \in timeouts
              \/ /\ [a EXCEPT !.left = a.left + 1] \in timeouts
                 /\ evCount' = evCount
              \/ /\ a.left = DebounceTicks
                 /\ QualifyingEvent
                 /\ lastEvent'.class = "tree-and-arch"
      ]_vars

\* A tree-only event has just arrived while an architecture timeout, part
\* of its delay already gone, was pending.
C31_Witness ==
    /\ lastEvent.class = "tree-only"
    /\ \E t \in TimersOf(timeouts, "tree") : t.left = DebounceTicks
    /\ \E a \in TimersOf(timeouts, "arch") :
          a.left < DebounceTicks /\ archDebounceTimer = {a.id}


-----------------------------------------------------------------------------
(* Snapshot store: failures inside pruneSnapshots *)

\* The files a pruneSnapshots step went for: those it deleted and those
\* whose delete failed.
Attempted == (historyDir \ historyDir') \cup lastOp'.undeleted

\* C32: a pruneSnapshots call completes whatever stat or delete fails; it
\* attempts the delete of as many files as the retention asks for, even
\* after one of the deletes failed; and a snapshot whose stat failed is
\* among them whenever a snapshot with a readable modification time is.
C32_PruneBestEffort ==
    [][ (lastOp'.op = "prune" /\ archPc' \in {"free", "pruned"})
          => /\ Cardinality(Attempted)
                   = toDeleteCount(lastOp'.countBefore, maxHistorySnapshots)
             /\ \A f \in lastOp'.statFailed :
                   \A e \in snapshotNames(historyDir) \ lastOp'.statFailed :
                       e \in Attempted => f \in Attempted
      ]_vars

\* A prune in which a stat failed, a delete failed, and another target
\* was deleted all the same.
C32_Witness ==
    /\ lastOp.op = "prune"
    /\ lastOp.statFailed # {}
    /\ lastOp.statFailed \cap lastOp.undeleted = {}
    /\ lastOp.statFailed \cap historyDir = {}
    /\ lastOp.undeleted # {}
    /\ lastOp.deleted > 0


\* C33: while the client is not disposed, a cooldown is left: a timeout
\* that clears the flag is pending as long as the flag is set, and the flag
\* is clear once the cooldown duration has passed since the last quota
\* signal.
C33_CooldownEnds ==
    /\ []((quotaCooldown /\ modelChangeDisposable) => cooldownTimeouts # {})
    /\ (quotaCooldown /\ modelChangeDisposable)
          ~> (\/ ~quotaCooldown /\ sinceQuota = CooldownTicks
              \/ ~modelChangeDisposable)

C33_Witness ==
    /\ modelChangeDisposable
    /\ quotaSignals # {}
    /\ ~quotaCooldown
    /\ sinceQuota = CooldownTicks
    /\ cooldownTimeouts = {}
    /\ \E c \in Calls : c \notin quotaSignals /\ calls[c].pc = "sending"


\* C34: at most one watcher session is live, and none while the state is
\* Paused.
C34_OneSessionNoneWhenPaused ==
    /\ liveSessions <= 1
    /\ watcherState = "Paused" => liveSessions = 0


\* C35: after the pruneSnapshots of a round, the snapshot the round's
\* saveSnapshot wrote is still in the history directory.
C35_NewestSurvivesPrune ==
    archPc = "pruned"
        => \E e \in snapshotNames(historyDir) : e.stamp = now - 1


\* C36: after a second quota signal the cooldown flag stays set until the
\* full cooldown duration has passed since the most recent signal.
C36_SecondSignalRestartsCooldown ==
    (Cardinality(quotaSignals) >= 2 /\ sinceQuota \in 0..(CooldownTicks - 1))
        => quotaCooldown


\* C37: once every started model selection has settled, the cached model is
\* the result of the selection that was started last.
C37_LatestSelectionWins ==
    ~SelectionPending => cachedModel = latestSelection.result


\* C38: no model.sendRequest is issued for a call whose token has been
\* cancelled.
C38_NoSendAfterCancel ==
    [][\A c \in Calls : Issues(c) => ~calls[c].cancelled]_vars


\* cancelPendingTimers() ran after the last qualifying event.
CancelledSince == cancelledBelow = nextTimeoutId

\* C39: no qualifying event is lost: as long as a regeneration is owed its
\* timeout is pending, and unless the timers are cancelled or the session is
\* disposed the tree handler is invoked after the last qualifying event, and
\* so is the architecture handler once its timer was armed.
C39_DebounceLiveness ==
    /\ [](treeOwed => \E t \in TimersOf(timeouts, "tree") :
                          treeDebounceTimer = {t.id})
    /\ [](archDebounceTimer # undefined
            => \E t \in TimersOf(timeouts, "arch") : archDebounceTimer = {t.id})
    /\ treeOwed ~> (treeFiresSinceEvt > 0 \/ ~sessionLive \/ CancelledSince)
    /\ (archDebounceTimer # undefined) ~> (archDebounceTimer = undefined)

\* Both handlers have run after a burst of events, the last of them
\* relevant to the tree only.
C39_Witness ==
    /\ sessionLive
    /\ evCount >= 2
    /\ lastEvent.class = "tree-only"
    /\ treeFiresSinceEvt = 1
    /\ ~treeOwed
    /\ timeouts = {}
    /\ Cardinality(signalCauses) >= 2
    /\ cancelledBelow = 0


\* Cycle c has a snapshot of its own in the set.
SavedBy(c, set) == \E s \in set : s.content.by = c

\* C40: a cycle overwrites the architecture file only after its own
\* saveSnapshot succeeded, and a failure inside pruneHistory leaves the cycle
\* on its way to the write.
C40_WriteAfterSaveDespitePrune ==
    [][\A c \in Cycles :
          /\ (archFile' # archFile /\ archFile'.by = c)
                => (cycles[c].pc = "pruned" /\ SavedBy(c, snapshots))
          /\ cycles'[c].wrote => SavedBy(c, snapshots')
          /\ (cycles[c].pc = "generated" /\ ~SavedBy(c, snapshots'))
                => (cycles'[c].pc \in {"generated", "done"} /\ ~cycles'[c].wrote)
          /\ (cycles'[c].pruneFailed /\ ~cycles[c].pruneFailed)
                => cycles'[c].pc = "pruned"]_vars

\* One cycle wrote the file although its prune failed; another ended at
\* its failed saveSnapshot.
C40_Witness ==
    /\ \E c \in Cycles :
          /\ cycles[c].pruneFailed
          /\ cycles[c].wrote
          /\ archFile.by = c
    /\ \E c \in Cycles :
          /\ cycles[c].pc = "done"
          /\ cycles[c].text # None
          /\ ~cycles[c].cancelled
          /\ ~SavedBy(c, snapshots)
          /\ ~cycles[c].wrote

=============================================================================
